---- MODULE Spec2Model ----
(***************************************************************************)
(* Biometric Sentry web dashboard: the session state of App (App.jsx), the *)
(* attendance pairing of calculateStudentAttendance, the retry loop of     *)
(* generateContent (geminiApi.js) and the query translation of             *)
(* runRAGAnalysis (ragAnalyzer.js).                                        *)
(*                                                                         *)
(* Each part has its own specification over the same variables; the       *)
(* variables of the other parts stay at their initial values.              *)
(*   Spec     the mounted App: initial load, live subscription, teardown   *)
(*   SpecOcc  computeDelta applied event by event next to the batch scan   *)
(*   SpecAtt  one call of calculateStudentAttendance                       *)
(*   SpecGen  one call of generateContent (SpecGenLive: with fairness)     *)
(*   SpecRag  the query translation of runRAGAnalysis, run twice           *)
(*   SpecAsk  the assistant panel: onAssistantSend and the runRAGAnalysis  *)
(*            call it awaits (SpecAskLive: with fairness)                  *)
(*   SpecBuf  the live feed filling the event and evidence buffers         *)
(*   SpecSearch   the student search: onSearchStudent                      *)
(*   SpecMetrics  one call of computeUniqueInAndIntruders                  *)
(***************************************************************************)
EXTENDS Integers, Sequences, FiniteSets, TLC

\* ------------------------------------------------------------------------
\* Bounds of the model
\* ------------------------------------------------------------------------
MaxInserts == 3      \* rows the detection pipeline inserts during a session
MaxSeq == 5          \* length of the event sequences given to the occupancy scan
MaxLogs == 4         \* rows the store returns to calculateStudentAttendance
MaxWords == 3        \* phrases a question is made of
MaxSends == 2        \* onAssistantSend calls in one session
BurstExtra == 2      \* rows inserted beyond the capacity of the event buffer
MaxLag == 2          \* notifications under way to the callback at one time
MaxBuf == 4          \* events in the buffer given to computeUniqueInAndIntruders
MaxSearches == 3     \* onSearchStudent calls in one session

\* ------------------------------------------------------------------------
\* Program constants
\* ------------------------------------------------------------------------
InitialPage == 20    \* fetchLastLogs(20)
EventCap == 100      \* .slice(0, 100)
GalleryCap == 8      \* .slice(0, 8)
TOTAL_SCHEDULED_MINUTES == 480
MsPerMinute == 60000 \* (logTime - entryTime) / 60000
maxRetries == 3      \* generateContent(systemInstruction, userQuery, maxRetries = 3)
FixedDelayMs == 2000 \* setTimeout(resolve, 2000)

Null == "null"

Max(a, b) == IF a >= b THEN a ELSE b
Min(a, b) == IF a <= b THEN a ELSE b

\* first n elements of s (Array.prototype.slice(0, n))
\* the last n elements
SliceLast(s, n) == SubSeq(s, Max(1, Len(s) - n + 1), Len(s))

\* s.slice(0, n)
Slice(s, n) == SubSeq(s, 1, Min(n, Len(s)))

RECURSIVE Reverse(_)
Reverse(s) == IF s = << >> THEN << >> ELSE Append(Reverse(Tail(s)), Head(s))

\* ------------------------------------------------------------------------
\* Rows of attendance_logs(roll_no, event_type, timestamp, is_spoof,
\* evidence_url).  RowKinds are the rows the pipeline may insert, without
\* their timestamp; the insert stamps them with the store's clock.
\* ------------------------------------------------------------------------
EventTypes == {"ENTRY", "EXIT", "OTHER"}

RowKinds ==
    { [roll_no |-> "R1", event_type |-> "ENTRY", is_spoof |-> FALSE, evidence_url |-> Null],
      [roll_no |-> "R1", event_type |-> "EXIT",  is_spoof |-> FALSE, evidence_url |-> Null],
      [roll_no |-> "R2", event_type |-> "ENTRY", is_spoof |-> TRUE,  evidence_url |-> "u1"],
      [roll_no |-> Null, event_type |-> "ENTRY", is_spoof |-> FALSE, evidence_url |-> "u2"],
      [roll_no |-> Null, event_type |-> "EXIT",  is_spoof |-> FALSE, evidence_url |-> Null],
      [roll_no |-> " ",  event_type |-> "OTHER", is_spoof |-> FALSE, evidence_url |-> "u3"] }

Stamp(k, t) ==
    [roll_no |-> k.roll_no, event_type |-> k.event_type, timestamp |-> t,
     is_spoof |-> k.is_spoof, evidence_url |-> k.evidence_url]

\* students(roll_no, full_name)
StudentsTable == [r \in {"R1", "R2"} |-> IF r = "R1" THEN "Ashraf Ali" ELSE "Ravi Kumar"]
EmptyMap == [r \in {} |-> ""]

\* ------------------------------------------------------------------------
\* Occupancy helpers of App
\* ------------------------------------------------------------------------
\* computeDelta without the clamp on EXIT
computeDeltaNoClamp(currentOccupancy, row) ==
    IF row.event_type = "ENTRY" THEN currentOccupancy + 1
    ELSE IF row.event_type = "EXIT" THEN currentOccupancy - 1
    ELSE currentOccupancy

computeDelta(currentOccupancy, row) ==
    IF row.event_type = "ENTRY" THEN currentOccupancy + 1
    ELSE IF row.event_type = "EXIT" THEN Max(0, currentOccupancy - 1)
    ELSE currentOccupancy

\* the signed running counter e of computeOccupancyFromLogs after scanning logs
RECURSIVE ScanCounter(_, _)
ScanCounter(logs, e) ==
    IF logs = << >> THEN e
    ELSE ScanCounter(Tail(logs),
                     IF Head(logs).event_type = "ENTRY" THEN e + 1
                     ELSE IF Head(logs).event_type = "EXIT" THEN e - 1
                     ELSE e)

\* computeOccupancyFromLogs publishing the raw counter
computeOccupancyFromLogsRaw(logs) == ScanCounter(logs, 0)

\* the value computeOccupancyFromLogs passes to setOccupancy
computeOccupancyFromLogs(logs) == Max(0, ScanCounter(logs, 0))

\* the filter seeding the gallery on initial load: (is_spoof || !roll_no) && evidence_url
Falsy(v) == v = Null \/ v = ""
GallerySeedKeep(l) == (l.is_spoof \/ Falsy(l.roll_no)) /\ ~Falsy(l.evidence_url)

\* String(roll_no).trim() for the roll numbers of the model
Trim(s) == IF s = " " THEN "" ELSE s
hasRollNew(newRow) == newRow.roll_no # Null /\ Trim(newRow.roll_no) # ""
GalleryLiveKeepNoUrl(newRow) == newRow.is_spoof \/ ~hasRollNew(newRow)

\* the test of the live callback: (is_spoof || !hasRollNew) && evidence_url
GalleryLiveKeep(newRow) ==
    (newRow.is_spoof \/ ~hasRollNew(newRow)) /\ ~Falsy(newRow.evidence_url)

\* ------------------------------------------------------------------------
\* calculateStudentAttendance
\* ------------------------------------------------------------------------
\* Timestamps of the attendance rows are seconds after midnight of one day;
\* new Date(ts).getTime() is in milliseconds.  Only differences and
\* comparisons of these values are used, so the epoch offset of the day is
\* left out.
\*   09:00, 09:05, 09:30, 09:59:30, 17:00, 17:30
AttTimes == {32400, 32700, 34200, 35970, 61200, 63000}
getTime(timestamp) == timestamp * 1000

\* The running total totalDurationMinutes is a fraction of minutes; acc.total
\* holds it exactly as a number of milliseconds (minutes * MsPerMinute).
\* acc.entryTime is NoEntry (null) or Open(t), t the getTime() of the open ENTRY.
NoEntry == << >>
Open(t) == << t >>
TimeOf(e) == e[1]

\* the forEach callback re-opening on every ENTRY
forEachLogReopen(acc, log) ==
    LET logTime == getTime(log.timestamp) IN
    IF log.event_type = "ENTRY"
    THEN [total |-> acc.total, entryTime |-> Open(logTime)]
    ELSE IF log.event_type = "EXIT"
    THEN IF acc.entryTime # NoEntry /\ logTime > TimeOf(acc.entryTime)
         THEN [total |-> acc.total + (logTime - TimeOf(acc.entryTime)), entryTime |-> NoEntry]
         ELSE acc
    ELSE acc

\* the forEach callback assigning the elapsed time instead of adding it
forEachLogAssign(acc, log) ==
    LET logTime == getTime(log.timestamp) IN
    IF log.event_type = "ENTRY"
    THEN IF acc.entryTime = NoEntry THEN [total |-> acc.total, entryTime |-> Open(logTime)]
         ELSE acc
    ELSE IF log.event_type = "EXIT"
    THEN IF acc.entryTime # NoEntry /\ logTime > TimeOf(acc.entryTime)
         THEN [total |-> logTime - TimeOf(acc.entryTime), entryTime |-> NoEntry]
         ELSE acc
    ELSE acc

\* the callback of logs.forEach
forEachLog(acc, log) ==
    LET logTime == getTime(log.timestamp) IN
    IF log.event_type = "ENTRY"
    THEN IF acc.entryTime = NoEntry THEN [total |-> acc.total, entryTime |-> Open(logTime)]
         ELSE acc
    ELSE IF log.event_type = "EXIT"
    THEN IF acc.entryTime # NoEntry /\ logTime > TimeOf(acc.entryTime)
         THEN [total |-> acc.total + (logTime - TimeOf(acc.entryTime)), entryTime |-> NoEntry]
         ELSE acc
    ELSE acc

\* logs.forEach(...) over a whole list, from total 0 and no open entry
RECURSIVE scanFrom(_, _)
scanFrom(acc, logs) ==
    IF logs = << >> THEN acc ELSE scanFrom(forEachLog(acc, Head(logs)), Tail(logs))
scanLogs(logs) == scanFrom([total |-> 0, entryTime |-> NoEntry], logs)

\* A percentage string: "<int>.<frac>%" when lit = "fixed", else the literal.
FixedPct(tenths) == [lit |-> "fixed", int |-> tenths \div 10, frac |-> tenths % 10]
LitPct(text) == [lit |-> text, int |-> 0, frac |-> 0]

\* x.toFixed(1) for x = num / den >= 0, as a number of tenths: the nearest
\* tenth, the larger one on a tie (the binary rounding of x itself is left out)
toFixed1(num, den) == (2 * 10 * num + den) \div (2 * den)

\* total / TOTAL_SCHEDULED_MINUTES * 100 as the fraction total / PctDen
\* (TOTAL_SCHEDULED_MINUTES * MsPerMinute is a multiple of 100)
PctDen == (TOTAL_SCHEDULED_MINUTES * MsPerMinute) \div 100

\* the percentage without Math.min
percentageNoMin(total) == FixedPct(toFixed1(total, PctDen))

\* Math.min(100, totalDurationMinutes / TOTAL_SCHEDULED_MINUTES * 100).toFixed(1)
percentageOf(total) ==
    IF total >= 100 * PctDen THEN FixedPct(toFixed1(100, 1))
    ELSE FixedPct(toFixed1(total, PctDen))

\* `${hours}h ${minutes}m` with Math.floor(t / 60) and Math.round(t % 60)
durationString(total) ==
    [lit |-> "hm",
     h |-> total \div (60 * MsPerMinute),
     m |-> (2 * (total % (60 * MsPerMinute)) + MsPerMinute) \div (2 * MsPerMinute)]
LitDuration(text) == [lit |-> text, h |-> 0, m |-> 0]

NoResult == [duration |-> LitDuration("none"), percentage |-> LitPct("none")]

\* rows as selected by calculateStudentAttendance: event_type, timestamp, is_spoof
AttRow(ty, tm) == [event_type |-> ty, timestamp |-> tm, is_spoof |-> FALSE]

\* the non-decreasing timestamp lists of length n (.order("timestamp", ascending))
SortedTimes(n) ==
    { f \in [1..n -> AttTimes] : \A i \in 1..n : \A j \in 1..n : i <= j => f[i] <= f[j] }

\* ------------------------------------------------------------------------
\* generateContent
\* ------------------------------------------------------------------------
OfflineText == "Error: AI Assistant is offline (Missing API Key)."
RetriesExhaustedText ==
    "Error: AI Assistant failed to process the request after multiple retries."
LoopExitText == "Error: AI Assistant failed to process the request."
GeneratedText == "generated text"

\* What one request can come to:
\*   "429"          status 429
\*   "httpError"    another non-ok status, with a JSON error body
\*   "httpErrorRaw" another non-ok status whose body response.json() cannot parse
\*   "okText"       ok, candidates[0].content.parts[0].text non-empty
\*   "okEmpty"      ok, the text empty or missing
\*   "okRaw"        ok, body response.json() cannot parse
\*   "rejected"     fetch rejects (network failure)
Outcomes == {"429", "httpError", "httpErrorRaw", "okText", "okEmpty", "okRaw", "rejected"}

\* Math.random() * 1000, some values of [0, 1000)
Jitters == {0, 500, 999}

RECURSIVE Pow2(_)
Pow2(n) == IF n = 0 THEN 1 ELSE 2 * Pow2(n - 1)

\* Math.pow(2, attempt) * 1000 + Math.random() * 1000
backoffDelay(attempt, jitter) == Pow2(attempt) * 1000 + jitter

\* the loop condition one attempt too generous
loopContinuesInclusive(attempt) == attempt <= maxRetries

\* attempt < maxRetries
loopContinues(attempt) == attempt < maxRetries

\* the try block treating 429 like any other non-ok status
tryBlockNo429(outcome) ==
    IF outcome = "okText" THEN "return" ELSE "catch"

\* the try block on a request's outcome: back off and continue, return the
\* text, or end up in the catch block (fetch or response.json() rejecting, the
\* Error thrown for a non-ok status or for an empty text)
tryBlock(outcome) ==
    IF outcome = "429" THEN "backoff"
    ELSE IF outcome = "okText" THEN "return"
    ELSE "catch"

\* the catch block throwing again on the last attempt
catchBlockRethrow(attempt) ==
    IF attempt = maxRetries - 1 THEN [do |-> "throw", text |-> ""]
    ELSE [do |-> "wait", text |-> ""]

\* the catch block: give up on the last attempt, else wait 2 seconds
catchBlock(attempt) ==
    IF attempt = maxRetries - 1 THEN [do |-> "return", text |-> RetriesExhaustedText]
    ELSE [do |-> "wait", text |-> ""]

Pending == [kind |-> "pending", text |-> ""]
Returned(text) == [kind |-> "returned", text |-> text]
Thrown == [kind |-> "thrown", text |-> ""]

\* ------------------------------------------------------------------------
\* runRAGAnalysis: query translation
\* ------------------------------------------------------------------------
\* Questions, keywords and names are sequences of characters.
toLowerChar(c) ==
    CASE c = "A" -> "a"
      [] c = "B" -> "b"
      [] c = "C" -> "c"
      [] c = "D" -> "d"
      [] c = "E" -> "e"
      [] c = "F" -> "f"
      [] c = "G" -> "g"
      [] c = "H" -> "h"
      [] c = "I" -> "i"
      [] c = "J" -> "j"
      [] c = "K" -> "k"
      [] c = "L" -> "l"
      [] c = "M" -> "m"
      [] c = "N" -> "n"
      [] c = "O" -> "o"
      [] c = "P" -> "p"
      [] c = "Q" -> "q"
      [] c = "R" -> "r"
      [] c = "S" -> "s"
      [] c = "T" -> "t"
      [] c = "U" -> "u"
      [] c = "V" -> "v"
      [] c = "W" -> "w"
      [] c = "X" -> "x"
      [] c = "Y" -> "y"
      [] c = "Z" -> "z"
      [] OTHER -> c
toLowerCase(str) == [i \in DOMAIN str |-> toLowerChar(str[i])]

\* String.prototype.includes
includes(str, search) ==
    \E i \in 0..(Len(str) - Len(search)) : SubSeq(str, i + 1, i + Len(search)) = search

KwProxy == << "p", "r", "o", "x", "y" >>
KwProxies == << "p", "r", "o", "x", "i", "e", "s" >>
KwIntruder == << "i", "n", "t", "r", "u", "d", "e", "r" >>
KwIntruders == << "i", "n", "t", "r", "u", "d", "e", "r", "s" >>
KwAshraf == << "a", "s", "h", "r", "a", "f" >>
KwMahaboob == << "m", "a", "h", "a", "b", "o", "o", "b" >>
KwToday == << "t", "o", "d", "a", "y" >>

\* the phrases questions are made of
PhHowMany == << "h", "o", "w", " ", "m", "a", "n", "y", " " >>
PhProxies == << "p", "r", "o", "x", "i", "e", "s", " " >>
PhProxy == << "P", "R", "O", "X", "Y", " " >>
PhIntruders == << "I", "n", "t", "r", "u", "d", "e", "r", "s", " " >>
PhAshraf == << "A", "s", "h", "r", "a", "f", " " >>
PhMahaboob == << "m", "a", "h", "a", "b", "o", "o", "b", " " >>
PhToday == << "t", "o", "d", "a", "y" >>
Phrases == {PhHowMany, PhProxies, PhProxy, PhIntruders, PhAshraf, PhMahaboob, PhToday}

RECURSIVE Concat(_)
Concat(parts) == IF parts = << >> THEN << >> ELSE Head(parts) \o Concat(Tail(parts))

Questions == { Concat(ps) : ps \in UNION { [1..n -> Phrases] : n \in 0..MaxWords } }

\* students(roll_no, full_name) as the translator's lookup sees it
StudentAshraf == [roll_no |-> "R1", full_name |-> << "A", "s", "h", "r", "a", "f", " ", "A", "l", "i" >>]
StudentMahaboob == [roll_no |-> "R2", full_name |-> << "M", "a", "h", "a", "b", "o", "o", "b", " ", "A", "S", "H", "R", "A", "F" >>]
StudentRavi == [roll_no |-> "R3", full_name |-> << "R", "a", "v", "i", " ", "K", "u", "m", "a", "r" >>]
Directories ==
    { {}, {StudentRavi}, {StudentAshraf, StudentRavi},
      {StudentAshraf, StudentMahaboob, StudentRavi} }

\* new Date().toISOString().split("T")[0] on two consecutive days
Days == << "2026-01-01", "2026-01-02" >>

\* full_name ILIKE '%namePart%'
ilike(full_name, namePart) == includes(toLowerCase(full_name), toLowerCase(namePart))

\* the lookup selecting the name as well
lookupColumnsWithName == {"roll_no", "full_name"}

\* .select("roll_no")
lookupColumns == {"roll_no"}

\* a row reduced to the selected columns
Project(row, cols) == [c \in cols |-> row[c]]

\* row[field] in JavaScript: undefined for a missing property, which a
\* template literal prints as "undefined"
Undefined == << "u", "n", "d", "e", "f", "i", "n", "e", "d" >>
Get(row, field) == IF field \in DOMAIN row THEN row[field] ELSE Undefined

\* the rows of a set in every order a query without ORDER BY may return them
Orders(rows) ==
    { f \in [1..Cardinality(rows) -> rows] : \A i, j \in DOMAIN f : i # j => f[i] # f[j] }

\* filters added to queryBuilder; val is a set of values
FilterSpoof == [col |-> "is_spoof", op |-> "eq", val |-> {"true"}]
FilterNoRoll == [col |-> "roll_no", op |-> "is", val |-> {Null}]
FilterRollIn(roll_nos) == [col |-> "roll_no", op |-> "in", val |-> roll_nos]
FilterSince(day) == [col |-> "timestamp", op |-> "gte", val |-> {day}]

\* dataLabel is the list of the pieces concatenated into it: literal texts, and
\* for the student rule the characters of the interpolated name
TextPiece(text) == [text |-> text, name |-> << >>]
NamePiece(name) == [text |-> "", name |-> name]
LabelDefault == << TextPiece("Attendance Logs") >>
LabelProxy == << TextPiece("Proxy Attempts") >>
LabelIntruder == << TextPiece("Intruder Sightings") >>
LabelToday == TextPiece(" (Today)")
LabelActivity(name) == << NamePiece(name), TextPiece("'s Activity") >>

DbOfflineText == "Error: Database connection is offline. Cannot perform RAG analysis."
NotFoundText(namePart) ==
    IF namePart = KwAshraf
    THEN "AI Assistant: I cannot find activity logs for 'ashraf'. Please check the name or Roll Number."
    ELSE "AI Assistant: I cannot find activity logs for 'mahaboob'. Please check the name or Roll Number."

\* A. proxies, B. intruders: the translation state after both rules
rulesAB(q) ==
    LET lq == toLowerCase(q)
        proxy == includes(lq, KwProxy) \/ includes(lq, KwProxies)
        intruder == includes(lq, KwIntruder) \/ includes(lq, KwIntruders) IN
    [filters |-> (IF proxy THEN {FilterSpoof} ELSE {})
                   \cup (IF intruder THEN {FilterNoRoll} ELSE {}),
     label |-> IF intruder THEN LabelIntruder
               ELSE IF proxy THEN LabelProxy ELSE LabelDefault,
     filterApplied |-> proxy \/ intruder]

\* C. the condition and the name part of the student rule
mentionsStudent(q) ==
    includes(toLowerCase(q), KwAshraf) \/ includes(toLowerCase(q), KwMahaboob)
namePartOf(q) == IF includes(toLowerCase(q), KwAshraf) THEN KwAshraf ELSE KwMahaboob

\* C. after the lookup: data is the rows (a sequence) or NoData (null)
NoData == << [roll_no |-> Null] >>
ruleC(st, data) ==
    IF data # NoData /\ Len(data) > 0
    THEN [filters |-> st.filters \cup {FilterRollIn({ data[i].roll_no : i \in DOMAIN data })},
          label |-> LabelActivity(Get(data[1], "full_name")),
          filterApplied |-> TRUE]
    ELSE st
shortCircuits(st, data) == ~(data # NoData /\ Len(data) > 0) /\ ~st.filterApplied

\* the condition of rule D without the "today" keyword
timeConstraintDefaultOnly(filterApplied, q) == ~filterApplied

\* D. !filterApplied || userQuestion.toLowerCase().includes("today")
timeConstraint(filterApplied, q) ==
    ~filterApplied \/ includes(toLowerCase(q), KwToday)

ruleD(st, q, day) ==
    IF timeConstraint(st.filterApplied, q)
    THEN [filters |-> st.filters \cup {FilterSince(day)},
          label |-> Append(st.label, LabelToday),
          filterApplied |-> st.filterApplied]
    ELSE st

NoTranslation == [filters |-> {}, label |-> << >>, filterApplied |-> FALSE]
NoRun == [pc |-> "none", translation |-> NoTranslation, studentData |-> NoData,
          lookup |-> "none", today |-> "", result |-> Pending]

\* runRAGAnalysis(client, q) from its call to its first await, day being the
\* UTC date: where it stands then, and what it has computed
callRAG(client, q, day) ==
    IF ~client
    THEN [pc |-> "done", result |-> Returned(DbOfflineText), today |-> "",
          translation |-> NoTranslation, op |-> "ragOffline"]
    ELSE IF mentionsStudent(q)
    THEN [pc |-> "lookup", result |-> Pending, today |-> day,
          translation |-> rulesAB(q), op |-> "ragLookup"]
    ELSE [pc |-> "awaitRetrieval", result |-> Pending, today |-> day,
          translation |-> ruleD(rulesAB(q), q, day), op |-> "ragTranslated"]

\* ------------------------------------------------------------------------
\* runRAGAnalysis: final retrieval and generation
\* ------------------------------------------------------------------------
DbErrorText == "AI Assistant: A database error occurred during data retrieval."
\* `AI Assistant: No ${dataLabel} found ...`, the label being translation.label
NoDataText == "AI Assistant: No ${dataLabel} found in the logs matching your criteria."

\* how the awaited queryBuilder can settle: { error }, { data: null },
\* { data: [] }, { data: [row, ...] }, or a rejected promise
RetrievalOutcomes == {"error", "null", "empty", "rows", "exception"}

afterRetrievalNoEmptyCheck(outcome) ==
    IF outcome = "error" THEN "dbError" ELSE "generate"

\* the two checks after the await
afterRetrieval(outcome) ==
    IF outcome = "error" THEN "dbError"
    ELSE IF outcome \in {"null", "empty"} THEN "noData"
    ELSE "generate"

\* what the awaited generateContent(ANALYST_PROMPT, userQueryWithContext)
\* resolves to: the text of one of its return statements
generateContentResults(key) ==
    IF ~key THEN {OfflineText} ELSE {GeneratedText, RetriesExhaustedText, LoopExitText}

\* `AI Assistant: ${aiResponse}`
AssistantText(aiResponse) ==
    CASE aiResponse = GeneratedText -> "AI Assistant: generated text"
      [] aiResponse = OfflineText ->
           "AI Assistant: Error: AI Assistant is offline (Missing API Key)."
      [] aiResponse = RetriesExhaustedText ->
           "AI Assistant: Error: AI Assistant failed to process the request after multiple retries."
      [] aiResponse = LoopExitText ->
           "AI Assistant: Error: AI Assistant failed to process the request."

\* ------------------------------------------------------------------------
\* computeUniqueInAndIntruders
\* ------------------------------------------------------------------------
\* the buffered events it is given
MetricRows ==
    { [roll_no |-> "R1", event_type |-> "ENTRY", timestamp |-> 1, is_spoof |-> FALSE, evidence_url |-> Null],
      [roll_no |-> "R1", event_type |-> "EXIT",  timestamp |-> 2, is_spoof |-> FALSE, evidence_url |-> Null],
      [roll_no |-> "R2", event_type |-> "ENTRY", timestamp |-> 1, is_spoof |-> TRUE,  evidence_url |-> "u1"],
      [roll_no |-> Null, event_type |-> "ENTRY", timestamp |-> 1, is_spoof |-> FALSE, evidence_url |-> "u1"],
      [roll_no |-> Null, event_type |-> "ENTRY", timestamp |-> 1, is_spoof |-> FALSE, evidence_url |-> Null],
      [roll_no |-> Null, event_type |-> "ENTRY", timestamp |-> 2, is_spoof |-> FALSE, evidence_url |-> ""],
      [roll_no |-> Null, event_type |-> "EXIT",  timestamp |-> 3, is_spoof |-> FALSE, evidence_url |-> Null],
      [roll_no |-> " ",  event_type |-> "ENTRY", timestamp |-> 2, is_spoof |-> FALSE, evidence_url |-> "u2"] }

\* a timestamp that is null
NoStamp == 0

hasRoll(ev) == ev.roll_no # Null /\ Trim(ev.roll_no) # ""

\* ev.evidence_url || ev.timestamp || Math.random(), for the i-th event: the
\* url, the timestamp, or a number no other call returns
UrlKey(u) == [url |-> u, ts |-> NoStamp, rnd |-> 0]
TsKey(t) == [url |-> "", ts |-> t, rnd |-> 0]
RandomKey(i) == [url |-> "", ts |-> NoStamp, rnd |-> i]
intruderKey(ev, i) ==
    IF ~Falsy(ev.evidence_url) THEN UrlKey(ev.evidence_url)
    ELSE IF ev.timestamp # NoStamp THEN TsKey(ev.timestamp)
    ELSE RandomKey(i)

\* map.set(k, v)
MapSet(map, k, v) == [r \in DOMAIN map \cup {k} |-> IF r = k THEN v ELSE map[r]]

NoScan == [rollLatest |-> EmptyMap, intruderSeen |-> {}]

recordRollOverwrite(map, r, evt) == MapSet(map, r, evt)

\* if (!rollLatest.has(r)) rollLatest.set(r, ev.event_type)
recordRoll(map, r, evt) ==
    IF r \notin DOMAIN map THEN MapSet(map, r, evt) ELSE map

visitEventAnyType(acc, ev, i) ==
    IF hasRoll(ev)
    THEN IF ev.roll_no \notin DOMAIN acc.rollLatest
         THEN [acc EXCEPT !.rollLatest = MapSet(@, ev.roll_no, ev.event_type)]
         ELSE acc
    ELSE [acc EXCEPT !.intruderSeen = @ \cup {intruderKey(ev, i)}]

\* the body of `for (const ev of logs)`, ev being the i-th event
visitEvent(acc, ev, i) ==
    IF hasRoll(ev)
    THEN [acc EXCEPT !.rollLatest = recordRoll(@, ev.roll_no, ev.event_type)]
    ELSE IF intruderKey(ev, i) \notin acc.intruderSeen /\ ev.event_type = "ENTRY"
         THEN [acc EXCEPT !.intruderSeen = @ \cup {intruderKey(ev, i)}]
         ELSE acc

RECURSIVE visitFrom(_, _, _)
visitFrom(acc, logs, i) ==
    IF i > Len(logs) THEN acc ELSE visitFrom(visitEvent(acc, logs[i], i), logs, i + 1)

\* the counts returned after the loop
countsOf(acc) ==
    [uniqueIn |-> Cardinality({ r \in DOMAIN acc.rollLatest : acc.rollLatest[r] = "ENTRY" }),
     intruderCount |-> Cardinality(acc.intruderSeen)]

computeUniqueInAndIntruders(logs) ==
    IF logs = << >> THEN [uniqueIn |-> 0, intruderCount |-> 0]
    ELSE countsOf(visitFrom(NoScan, logs, 1))

\* the header tiles: computeUniqueInAndIntruders(events).uniqueIn and
\* .intruderCount, evaluated at each render
headerMetrics(buffer) == computeUniqueInAndIntruders(buffer)

\* ------------------------------------------------------------------------
\* App: assistant panel and student search
\* ------------------------------------------------------------------------
GreetingText == "How can I help you analyze the security logs?"
AnalyzingText == "AI: Analyzing database..."
AskErrorText == "Error processing AI request."

\* questions typed into the assistant input
AskQuestions == {PhAshraf, PhMahaboob, Concat(<< PhHowMany, PhProxies, PhToday >>)}

\* what a run not followed step by step settles to
OverlapResults == {Returned(DbErrorText), Returned(AssistantText(GeneratedText)), Thrown}

\* isLoadingAI once the try statement of onAssistantSend is left
gateAfterTryOnReturnOnly(kind) == kind # "returned"

\* finally { setIsLoadingAI(false) }
gateAfterTry(kind) == FALSE

\* studentInfo is null or an object
NoInfo == << >>
Info(r) == << r >>

\* roll numbers typed into the search box
SearchRolls == {"", "R1", "R2", "R9", "constructor"}

\* studentsMap is a plain object built from `{}`: a property read finds the
\* entry fetchStudents stored, else what Object.prototype holds under that
\* name (a function, which is truthy), else undefined
ObjectPrototypeKeys == {"constructor", "toString", "valueOf", "hasOwnProperty"}
InheritedValue == "[object inherited from Object.prototype]"
propertyRead(map, key) ==
    IF key \in DOMAIN map THEN map[key]
    ELSE IF key \in ObjectPrototypeKeys THEN InheritedValue
    ELSE Null

\* the percentage of the object the awaited calculateStudentAttendance
\* resolves to: without a query "-", with one "-" (error, exception), "0%"
\* (no rows) or a percentage with one decimal
attendancePercentages(queried) ==
    IF ~queried THEN {LitPct("-")}
    ELSE {LitPct("-"), LitPct("0%"), FixedPct(63), FixedPct(1000)}

\* computeUniqueInAndIntruders before it returns
NoMetrics == [uniqueIn |-> -1, intruderCount |-> -1]

\* ------------------------------------------------------------------------
\* State
\* ------------------------------------------------------------------------
VARIABLES
    \* App
    supabase,       \* TRUE when the store client was created (env vars present)
    studentsMap,    \* useState({})
    events,         \* useState([]), most recent first
    occupancy,      \* useState(0)
    gallery,        \* useState([]), most recent first
    mounted,        \* mounted.current
    loadPc,         \* position of the initial-load async function
    loadMap,        \* map awaited from fetchStudents
    loadLogs,       \* rows the store selected for fetchLastLogs, not yet resolved
    channel,        \* "none" | "joining" | "joined" | "removed"
    \* store and realtime transport
    dbLogs,         \* attendance_logs in insertion order
    inflight,       \* INSERT notifications not yet delivered to the callback
    lastOp,         \* name of the last step taken
    \* occupancy comparison
    occSeq,         \* events appended so far
    occInc,         \* occupancy kept by computeDelta from 0
    \* calculateStudentAttendance
    rollNo,         \* the rollNo argument
    attLogs,        \* the rows the query yields, oldest first
    attPc,          \* "call" | "await" | "scan" | "done"
    attIdx,         \* rows handed to the forEach callback so far
    totalDurationMinutes,   \* running total, in milliseconds (see forEachLog)
    entryTime,      \* NoEntry or Open(time of the open ENTRY)
    attResult,      \* the returned { duration, percentage }
    \* generateContent
    API_KEY,        \* TRUE when VITE_GEMINI_API_KEY is set
    gcPc,           \* "call" | "loop" | "awaitFetch" | "sleep" | "done"
    attempt,        \* the loop variable
    requests,       \* fetch calls made
    responses,      \* outcomes of the requests, in order
    waits,          \* the setTimeout waits started, in order
    gcResult,       \* Pending, Returned(text) or Thrown
    \* runRAGAnalysis
    userQuestion,   \* the question, a sequence of characters
    students,       \* the students table the lookup reads
    utcDate,        \* index in Days of the current UTC date
    ragPc,          \* "call" | "lookup" | "awaitRetrieval" | "done"
    today,          \* const today
    translation,    \* queryBuilder's filters, dataLabel, filterApplied
    studentData,    \* rows the lookup returned, NoData for null
    lookup,         \* "none" | "rows" | "error" | "exception"
    ragResult,      \* Pending, Returned(text) or Thrown
    ragRun,         \* 1 or 2: which run of the same question this is
    firstRun,       \* the first run as it ended, NoRun before
    \* assistant
    assistantQuery,     \* useState(""), a sequence of characters
    isLoadingAI,        \* useState(false)
    assistantResponse,  \* useState("How can I help you ...")
    shown,          \* assistantQuery and isLoadingAI as of the last render: what
                    \* the handlers of that render close over
    askPc,          \* "idle" | "awaitRun": the onAssistantSend call followed step by step
    overlapped,     \* further onAssistantSend calls accepted meanwhile, not yet settled
    sends,          \* onAssistantSend calls made
    ragCalls,       \* runRAGAnalysis calls started
    retrieval,      \* "none" | "error" | "empty" | "rows" | "exception": how the
                    \* awaited queryBuilder settled in this run
    retrievals,     \* times the awaited queryBuilder settled in this run
    gcCalls,        \* generateContent calls made in this run
    \* live feed at capacity
    pattern,        \* the kinds of the rows the edge devices insert, in turn
    delivered,      \* timestamps of the rows the live callback has run for
    \* student search
    studentInfo,    \* useState(null)
    searching,      \* onSearchStudent calls awaiting calculateStudentAttendance
    searches,       \* onSearchStudent calls made
    eventQueries,   \* attendance_logs queries issued by searches
    awaited,        \* onSearchStudent calls that reached their await
    \* computeUniqueInAndIntruders
    mLogs,          \* the logs argument
    mIdx,           \* events the for loop has visited
    rollLatest,     \* the Map rollLatest
    intruderSeen,   \* the Set intruderSeen
    mResult         \* the returned { uniqueIn, intruderCount }

sessVars == << supabase, studentsMap, events, occupancy, gallery, mounted, loadPc,
               loadMap, loadLogs, channel, dbLogs, inflight >>
occVars == << occSeq, occInc >>
attVars == << rollNo, attLogs, attPc, attIdx, totalDurationMinutes, entryTime, attResult >>
gcVars == << API_KEY, gcPc, attempt, requests, responses, waits, gcResult >>
ragVars == << userQuestion, students, utcDate, ragPc, today, translation, studentData,
              lookup, ragResult, ragRun, firstRun >>
askVars == << assistantQuery, isLoadingAI, assistantResponse, shown, askPc, overlapped,
              sends, ragCalls, retrieval, retrievals, gcCalls >>
bufVars == << pattern, delivered >>
searchVars == << studentInfo, searching, searches, eventQueries, awaited >>
metricVars == << mLogs, mIdx, rollLatest, intruderSeen, mResult >>
extraVars == << askVars, bufVars, searchVars, metricVars >>
vars == << sessVars, lastOp, occVars, attVars, gcVars, ragVars, extraVars >>

\* ------------------------------------------------------------------------
\* Initial values of every part
\* ------------------------------------------------------------------------
SessIdle ==
    /\ studentsMap = EmptyMap
    /\ events = << >>
    /\ occupancy = 0
    /\ gallery = << >>
    /\ mounted = TRUE
    /\ loadPc = "students"
    /\ loadMap = EmptyMap
    /\ loadLogs = << >>
    /\ dbLogs = << >>
    /\ inflight = << >>

OccIdle ==
    /\ occSeq = << >>
    /\ occInc = 0

AttIdle ==
    /\ rollNo = ""
    /\ attLogs = << >>
    /\ attPc = "call"
    /\ attIdx = 0
    /\ totalDurationMinutes = 0
    /\ entryTime = NoEntry
    /\ attResult = NoResult

GcIdle ==
    /\ gcPc = "call"
    /\ attempt = 0
    /\ requests = 0
    /\ responses = << >>
    /\ waits = << >>
    /\ gcResult = Pending

RagRunIdle ==
    /\ ragPc = "call"
    /\ today = ""
    /\ translation = NoTranslation
    /\ studentData = NoData
    /\ lookup = "none"
    /\ ragResult = Pending

RagIdle ==
    /\ userQuestion = << >>
    /\ students = {}
    /\ utcDate = 1
    /\ RagRunIdle
    /\ ragRun = 1
    /\ firstRun = NoRun

AskIdle ==
    /\ assistantQuery = << >>
    /\ isLoadingAI = FALSE
    /\ assistantResponse = GreetingText
    /\ shown = [assistantQuery |-> << >>, isLoadingAI |-> FALSE]
    /\ askPc = "idle"
    /\ overlapped = 0
    /\ sends = 0
    /\ ragCalls = 0
    /\ retrieval = "none"
    /\ retrievals = 0
    /\ gcCalls = 0

BufIdle == pattern = << >> /\ delivered = {}

SearchIdle ==
    /\ studentInfo = NoInfo
    /\ searching = << >>
    /\ searches = 0
    /\ eventQueries = 0
    /\ awaited = 0

MetricsIdle ==
    /\ mLogs = << >>
    /\ mIdx = 0
    /\ rollLatest = EmptyMap
    /\ intruderSeen = {}
    /\ mResult = NoMetrics

ExtraIdle ==
    /\ AskIdle
    /\ BufIdle
    /\ SearchIdle
    /\ MetricsIdle

\* ------------------------------------------------------------------------
\* Spec: the mounted App
\* ------------------------------------------------------------------------
\* State after the first render and the mount effect: the async load has been
\* started and, with a store client, the channel subscription requested.
Init ==
    /\ supabase \in BOOLEAN
    /\ SessIdle
    /\ channel = IF supabase THEN "joining" ELSE "none"
    /\ lastOp = "mount"
    /\ OccIdle
    /\ AttIdle
    /\ API_KEY = TRUE
    /\ GcIdle
    /\ RagIdle
    /\ ExtraIdle

\* fetchStudents resolves: the map, or {} without client, on error or exception
FetchStudentsResolve ==
    /\ loadPc = "students"
    /\ \E ok \in BOOLEAN :
          loadMap' = IF supabase /\ ok THEN StudentsTable ELSE EmptyMap
    /\ loadPc' = "logs"
    /\ lastOp' = "fetchStudents"
    /\ UNCHANGED << extraVars, supabase, studentsMap, events, occupancy, gallery, mounted,
                    loadLogs, channel, dbLogs, inflight, occVars, attVars, gcVars, ragVars >>

\* the store evaluates fetchLastLogs' query: newest first, limit 20; [] without
\* client, on error or exception
FetchLastLogsQuery ==
    /\ loadPc = "logs"
    /\ \E ok \in BOOLEAN :
          loadLogs' = IF supabase /\ ok THEN Slice(Reverse(dbLogs), InitialPage)
                      ELSE << >>
    /\ loadPc' = "logsInFlight"
    /\ lastOp' = "fetchLastLogsQuery"
    /\ UNCHANGED << extraVars, supabase, studentsMap, events, occupancy, gallery, mounted,
                    loadMap, channel, dbLogs, inflight, occVars, attVars, gcVars, ragVars >>

\* the same without `if (!mounted.current) return;`
InitialLoadResolveUnguarded ==
    /\ loadPc = "logsInFlight"
    /\ loadPc' = "done"
    /\ lastOp' = IF mounted THEN "loadApplied" ELSE "loadDiscarded"
    /\ studentsMap' = loadMap
    /\ events' = loadLogs
    /\ gallery' = Slice(SelectSeq(loadLogs, GallerySeedKeep), GalleryCap)
    /\ occupancy' = computeOccupancyFromLogs(loadLogs)
    /\ UNCHANGED << extraVars, supabase, mounted, loadMap, loadLogs, channel, dbLogs, inflight,
                    occVars, attVars, gcVars, ragVars >>

\* await fetchLastLogs resolves and the rest of the async function runs
InitialLoadResolve ==
    /\ loadPc = "logsInFlight"
    /\ loadPc' = "done"
    /\ IF ~mounted
       THEN /\ lastOp' = "loadDiscarded"
            /\ UNCHANGED << studentsMap, events, gallery, occupancy >>
       ELSE /\ lastOp' = "loadApplied"
            /\ studentsMap' = loadMap
            /\ events' = loadLogs
            /\ gallery' = Slice(SelectSeq(loadLogs, GallerySeedKeep), GalleryCap)
            /\ occupancy' = computeOccupancyFromLogs(loadLogs)
    /\ UNCHANGED << extraVars, supabase, mounted, loadMap, loadLogs, channel, dbLogs, inflight,
                    occVars, attVars, gcVars, ragVars >>

\* the realtime channel finishes joining
ChannelJoin ==
    /\ channel = "joining"
    /\ channel' = "joined"
    /\ lastOp' = "channelJoin"
    /\ UNCHANGED << extraVars, supabase, studentsMap, events, occupancy, gallery, mounted, loadPc,
                    loadMap, loadLogs, dbLogs, inflight, occVars, attVars, gcVars, ragVars >>

\* the detection pipeline inserts a row; a joined channel is notified
Insert ==
    /\ Len(dbLogs) < MaxInserts
    /\ \E k \in RowKinds :
         LET row == Stamp(k, Len(dbLogs) + 1) IN
           /\ dbLogs' = Append(dbLogs, row)
           /\ inflight' = IF channel = "joined" THEN Append(inflight, row) ELSE inflight
    /\ lastOp' = "insert"
    /\ UNCHANGED << extraVars, supabase, studentsMap, events, occupancy, gallery, mounted, loadPc,
                    loadMap, loadLogs, channel, occVars, attVars, gcVars, ragVars >>

\* the callback skipping a row the event buffer already holds
LiveEventOnce ==
    /\ channel = "joined"
    /\ inflight # << >>
    /\ LET newRow == Head(inflight)
           held == \E i \in DOMAIN events : events[i] = newRow
       IN
         /\ events' = IF held THEN events ELSE Slice(<< newRow >> \o events, EventCap)
         /\ occupancy' = IF held THEN occupancy ELSE computeDelta(occupancy, newRow)
         /\ gallery' = IF ~held /\ GalleryLiveKeep(newRow)
                       THEN Slice(<< newRow >> \o gallery, GalleryCap)
                       ELSE gallery
    /\ inflight' = Tail(inflight)
    /\ delivered' = delivered \cup {Head(inflight).timestamp}
    /\ lastOp' = "liveEvent"
    /\ UNCHANGED << askVars, pattern, searchVars, metricVars, supabase, studentsMap, mounted,
                    loadPc, loadMap, loadLogs, channel, dbLogs, occVars, attVars, gcVars, ragVars >>

\* the postgres_changes callback runs for one notification
LiveEvent ==
    /\ channel = "joined"
    /\ inflight # << >>
    /\ LET newRow == Head(inflight) IN
         /\ events' = Slice(<< newRow >> \o events, EventCap)
         /\ occupancy' = computeDelta(occupancy, newRow)
         /\ gallery' = IF GalleryLiveKeep(newRow)
                       THEN Slice(<< newRow >> \o gallery, GalleryCap)
                       ELSE gallery
    /\ inflight' = Tail(inflight)
    /\ delivered' = delivered \cup {Head(inflight).timestamp}
    /\ lastOp' = "liveEvent"
    /\ UNCHANGED << askVars, pattern, searchVars, metricVars, supabase, studentsMap, mounted, loadPc, loadMap, loadLogs, channel,
                    dbLogs, occVars, attVars, gcVars, ragVars >>

\* the effect's cleanup
Teardown ==
    /\ mounted
    /\ mounted' = FALSE
    /\ channel' = IF channel \in {"joining", "joined"} THEN "removed" ELSE channel
    /\ lastOp' = "teardown"
    /\ UNCHANGED << extraVars, supabase, studentsMap, events, occupancy, gallery, loadPc, loadMap,
                    loadLogs, dbLogs, inflight, occVars, attVars, gcVars, ragVars >>

Next ==
    \/ FetchStudentsResolve
    \/ FetchLastLogsQuery
    \/ InitialLoadResolve
    \/ ChannelJoin
    \/ Insert
    \/ LiveEvent
    \/ Teardown

Spec == Init /\ [][Next]_vars

\* ------------------------------------------------------------------------
\* SpecOcc: computeDelta applied once per appended event, from occupancy 0
\* ------------------------------------------------------------------------
InitOcc ==
    /\ supabase = TRUE
    /\ SessIdle
    /\ channel = "none"
    /\ lastOp = "start"
    /\ OccIdle
    /\ AttIdle
    /\ API_KEY = TRUE
    /\ GcIdle
    /\ RagIdle
    /\ ExtraIdle

AppendEvent ==
    /\ Len(occSeq) < MaxSeq
    /\ \E t \in EventTypes :
         LET row == Stamp([roll_no |-> "R1", event_type |-> t, is_spoof |-> FALSE,
                           evidence_url |-> Null], Len(occSeq) + 1) IN
           /\ occSeq' = Append(occSeq, row)
           /\ occInc' = computeDelta(occInc, row)
    /\ lastOp' = "append"
    /\ UNCHANGED << extraVars, sessVars, attVars, gcVars, ragVars >>

NextOcc == AppendEvent

SpecOcc == InitOcc /\ [][NextOcc]_vars

\* ------------------------------------------------------------------------
\* SpecAtt: one call of calculateStudentAttendance(rollNo, allStudentsMap)
\* ------------------------------------------------------------------------
InitAtt ==
    /\ supabase \in BOOLEAN
    /\ SessIdle
    /\ channel = "none"
    /\ lastOp = "start"
    /\ OccIdle
    /\ supabase => rollNo \in {"", "R1"}
    /\ ~supabase => rollNo = "R1"
    \* no query is issued without client or rollNo
    /\ \E n \in 0..(IF supabase /\ rollNo # "" THEN MaxLogs ELSE 0) :
          \E tm \in SortedTimes(n) : \E ty \in [1..n -> EventTypes] :
             attLogs = [i \in 1..n |-> AttRow(ty[i], tm[i])]
    /\ attPc = "call"
    /\ attIdx = 0
    /\ totalDurationMinutes = 0
    /\ entryTime = NoEntry
    /\ attResult = NoResult
    /\ API_KEY = TRUE
    /\ GcIdle
    /\ RagIdle
    /\ ExtraIdle

\* the guard on entry: without client or rollNo the N/A result is returned
AttCall ==
    /\ attPc = "call"
    /\ IF ~supabase \/ rollNo = ""
       THEN /\ attPc' = "done"
            /\ attResult' = [duration |-> LitDuration("N/A"), percentage |-> LitPct("-")]
            /\ lastOp' = "attNoClient"
       ELSE /\ attPc' = "await"
            /\ attResult' = attResult
            /\ lastOp' = "attQuery"
    /\ UNCHANGED << extraVars, sessVars, occVars, gcVars, ragVars, rollNo, attLogs, attIdx, totalDurationMinutes,
                    entryTime >>

\* the awaited query reports an error, or rejects
AttQueryFails ==
    /\ attPc = "await"
    /\ \E how \in {"error", "exception"} :
         /\ attResult' = [duration |-> LitDuration(IF how = "error" THEN "DB Error" ELSE "Fail"),
                          percentage |-> LitPct("-")]
         /\ lastOp' = IF how = "error" THEN "attError" ELSE "attException"
    /\ attPc' = "done"
    /\ UNCHANGED << extraVars, sessVars, occVars, gcVars, ragVars, rollNo, attLogs, attIdx, totalDurationMinutes,
                    entryTime >>

\* the awaited query yields its rows; none gives the zero result
AttQueryRows ==
    /\ attPc = "await"
    /\ IF Len(attLogs) = 0
       THEN /\ attPc' = "done"
            /\ attResult' = [duration |-> durationString(0), percentage |-> LitPct("0%")]
            /\ lastOp' = "attNoLogs"
       ELSE /\ attPc' = "scan"
            /\ attResult' = attResult
            /\ lastOp' = "attRows"
    /\ UNCHANGED << extraVars, sessVars, occVars, gcVars, ragVars, rollNo, attLogs, attIdx, totalDurationMinutes,
                    entryTime >>

\* one iteration of logs.forEach
AttScanLog ==
    /\ attPc = "scan"
    /\ attIdx < Len(attLogs)
    /\ LET acc == forEachLog([total |-> totalDurationMinutes, entryTime |-> entryTime],
                             attLogs[attIdx + 1]) IN
         /\ totalDurationMinutes' = acc.total
         /\ entryTime' = acc.entryTime
    /\ attIdx' = attIdx + 1
    /\ lastOp' = "attScan"
    /\ UNCHANGED << extraVars, sessVars, occVars, gcVars, ragVars, rollNo, attLogs, attPc, attResult >>

\* after the scan: percentage, duration string, return
AttFinish ==
    /\ attPc = "scan"
    /\ attIdx = Len(attLogs)
    /\ attResult' = [duration |-> durationString(totalDurationMinutes),
                     percentage |-> percentageOf(totalDurationMinutes)]
    /\ attPc' = "done"
    /\ lastOp' = "attComputed"
    /\ UNCHANGED << extraVars, sessVars, occVars, gcVars, ragVars, rollNo, attLogs, attIdx, totalDurationMinutes,
                    entryTime >>

NextAtt ==
    \/ AttCall
    \/ AttQueryFails
    \/ AttQueryRows
    \/ AttScanLog
    \/ AttFinish

SpecAtt == InitAtt /\ [][NextAtt]_vars

\* ------------------------------------------------------------------------
\* SpecGen: one call of generateContent(systemInstruction, userQuery)
\* ------------------------------------------------------------------------
InitGen ==
    /\ supabase = TRUE
    /\ SessIdle
    /\ channel = "none"
    /\ lastOp = "start"
    /\ OccIdle
    /\ AttIdle
    /\ API_KEY \in BOOLEAN
    /\ GcIdle
    /\ RagIdle
    /\ ExtraIdle

\* the API key check, then the loop is entered with attempt = 0
GcCall ==
    /\ gcPc = "call"
    /\ IF ~API_KEY
       THEN /\ gcPc' = "done"
            /\ gcResult' = Returned(OfflineText)
            /\ lastOp' = "gcOffline"
       ELSE /\ gcPc' = "loop"
            /\ gcResult' = gcResult
            /\ lastOp' = "gcEnter"
    /\ UNCHANGED << extraVars, sessVars, occVars, attVars, ragVars, API_KEY, attempt, requests, responses,
                    waits >>

\* the loop condition holds: fetch is called
GcSend ==
    /\ gcPc = "loop"
    /\ loopContinues(attempt)
    /\ requests' = requests + 1
    /\ gcPc' = "awaitFetch"
    /\ lastOp' = "gcSend"
    /\ UNCHANGED << extraVars, sessVars, occVars, attVars, ragVars, API_KEY, attempt, responses, waits,
                    gcResult >>

\* the loop condition fails: the return after the loop
GcLoopExit ==
    /\ gcPc = "loop"
    /\ ~loopContinues(attempt)
    /\ gcResult' = Returned(LoopExitText)
    /\ gcPc' = "done"
    /\ lastOp' = "gcLoopExit"
    /\ UNCHANGED << extraVars, sessVars, occVars, attVars, ragVars, API_KEY, attempt, requests, responses,
                    waits >>

\* the request comes to an outcome and the loop body runs up to its next await
\* or return
GcRespond ==
    /\ gcPc = "awaitFetch"
    /\ \E outcome \in Outcomes :
       \E jitter \in (IF outcome = "429" THEN Jitters ELSE {0}) :
         LET path == tryBlock(outcome)
             handler == catchBlock(attempt) IN
           /\ responses' = Append(responses, outcome)
           /\ IF path = "return"
              THEN /\ gcResult' = Returned(GeneratedText)
                   /\ gcPc' = "done"
                   /\ waits' = waits
              ELSE IF path = "backoff"
              THEN /\ waits' = Append(waits, [after |-> "429", attempt |-> attempt,
                                              ms |-> backoffDelay(attempt, jitter)])
                   /\ gcPc' = "sleep"
                   /\ gcResult' = gcResult
              ELSE IF handler.do = "return"
              THEN /\ gcResult' = Returned(handler.text)
                   /\ gcPc' = "done"
                   /\ waits' = waits
              ELSE IF handler.do = "throw"
              THEN /\ gcResult' = Thrown
                   /\ gcPc' = "done"
                   /\ waits' = waits
              ELSE /\ waits' = Append(waits, [after |-> "failure", attempt |-> attempt,
                                              ms |-> FixedDelayMs])
                   /\ gcPc' = "sleep"
                   /\ gcResult' = gcResult
    /\ lastOp' = "gcRespond"
    /\ UNCHANGED << extraVars, sessVars, occVars, attVars, ragVars, API_KEY, attempt, requests >>

\* the timer fires: continue, or fall off the end of the loop body; attempt++
GcWake ==
    /\ gcPc = "sleep"
    /\ attempt' = attempt + 1
    /\ gcPc' = "loop"
    /\ lastOp' = "gcWake"
    /\ UNCHANGED << extraVars, sessVars, occVars, attVars, ragVars, API_KEY, requests, responses, waits,
                    gcResult >>

NextGen ==
    \/ GcCall
    \/ GcSend
    \/ GcLoopExit
    \/ GcRespond
    \/ GcWake

SpecGen == InitGen /\ [][NextGen]_vars

\* every awaited fetch and timer settles
SpecGenLive == SpecGen /\ WF_vars(NextGen)

\* ------------------------------------------------------------------------
\* SpecRag: runRAGAnalysis(supabaseClient, userQuestion) up to the final
\* retrieval, run twice on the same question and students table
\* ------------------------------------------------------------------------
InitRag ==
    /\ supabase \in BOOLEAN
    /\ SessIdle
    /\ channel = "none"
    /\ lastOp = "start"
    /\ OccIdle
    /\ AttIdle
    /\ API_KEY = TRUE
    /\ GcIdle
    /\ userQuestion \in Questions
    /\ students \in Directories
    /\ utcDate = 1
    /\ RagRunIdle
    /\ ragRun = 1
    /\ firstRun = NoRun
    /\ ExtraIdle

\* the UTC date changes
MidnightPasses ==
    /\ utcDate < Len(Days)
    /\ utcDate' = utcDate + 1
    /\ lastOp' = "midnight"
    /\ UNCHANGED << extraVars, sessVars, occVars, attVars, gcVars, userQuestion, students, ragPc,
                    today, translation, studentData, lookup, ragResult, ragRun, firstRun >>

\* the call up to its first await: client check, today, rules A and B, then
\* either the student lookup is awaited or rule D runs and the final retrieval
\* is awaited
RagCall ==
    /\ ragPc = "call"
    /\ LET r == callRAG(supabase, userQuestion, Days[utcDate])
       IN /\ ragPc' = r.pc
          /\ ragResult' = r.result
          /\ today' = r.today
          /\ translation' = r.translation
          /\ lastOp' = r.op
    /\ UNCHANGED << extraVars, sessVars, occVars, attVars, gcVars, userQuestion, students, utcDate,
                    studentData, lookup, ragRun, firstRun >>

\* the student lookup rejects: nothing in runRAGAnalysis catches it
RagLookupRejects ==
    /\ ragPc = "lookup"
    /\ lookup' = "exception"
    /\ ragResult' = Thrown
    /\ ragPc' = "done"
    /\ lastOp' = "ragThrown"
    /\ UNCHANGED << extraVars, sessVars, occVars, attVars, gcVars, userQuestion, students, utcDate,
                    today, translation, studentData, ragRun, firstRun >>

\* the student lookup resolves, with the matching rows in some order or with
\* an error (data null); rule C, then the short circuit or rule D
RagLookupResolve ==
    /\ ragPc = "lookup"
    /\ \E ok \in BOOLEAN :
         LET matching == { Project(st, lookupColumns) :
                             st \in { x \in students : ilike(x.full_name, namePartOf(userQuestion)) } }
         IN \E data \in (IF ok THEN Orders(matching) ELSE {NoData}) :
              /\ studentData' = data
              /\ lookup' = IF ok THEN "rows" ELSE "error"
              /\ IF shortCircuits(translation, data)
                 THEN /\ ragResult' = Returned(NotFoundText(namePartOf(userQuestion)))
                      /\ ragPc' = "done"
                      /\ translation' = translation
                      /\ lastOp' = "ragNotFound"
                 ELSE /\ translation' = ruleD(ruleC(translation, data), userQuestion, today)
                      /\ ragPc' = "awaitRetrieval"
                      /\ ragResult' = ragResult
                      /\ lastOp' = "ragTranslated"
    /\ UNCHANGED << extraVars, sessVars, occVars, attVars, gcVars, userQuestion, students, utcDate,
                    today, ragRun, firstRun >>

\* the same question is asked again, the students table unchanged
RagAgain ==
    /\ ragRun = 1
    /\ ragPc \in {"awaitRetrieval", "done"}
    /\ firstRun' = [pc |-> ragPc, translation |-> translation, studentData |-> studentData,
                    lookup |-> lookup, today |-> today, result |-> ragResult]
    /\ ragRun' = 2
    /\ ragPc' = "call"
    /\ today' = ""
    /\ translation' = NoTranslation
    /\ studentData' = NoData
    /\ lookup' = "none"
    /\ ragResult' = Pending
    /\ lastOp' = "ragAgain"
    /\ UNCHANGED << extraVars, sessVars, occVars, attVars, gcVars, userQuestion, students, utcDate >>

NextRag ==
    \/ MidnightPasses
    \/ RagCall
    \/ RagLookupRejects
    \/ RagLookupResolve
    \/ RagAgain

SpecRag == InitRag /\ [][NextRag]_vars

\* ------------------------------------------------------------------------
\* SpecBuf: the live feed filling the buffers. The session has applied its
\* initial load of an empty table and its channel is joined; the pipeline then
\* inserts rows of two kinds in turn, more than the event buffer holds.
\* ------------------------------------------------------------------------
InitBuf ==
    /\ supabase = TRUE
    /\ studentsMap = EmptyMap
    /\ events = << >>
    /\ occupancy = 0
    /\ gallery = << >>
    /\ mounted = TRUE
    /\ loadPc = "done"
    /\ loadMap = EmptyMap
    /\ loadLogs = << >>
    /\ channel = "joined"
    /\ dbLogs = << >>
    /\ inflight = << >>
    /\ lastOp = "loadApplied"
    /\ OccIdle
    /\ AttIdle
    /\ API_KEY = TRUE
    /\ GcIdle
    /\ RagIdle
    /\ AskIdle
    /\ pattern \in [1..2 -> RowKinds]
    /\ delivered = {}
    /\ SearchIdle
    /\ MetricsIdle

\* the pipeline inserts the next row; the store notifies the channel
InsertBurst ==
    /\ Len(dbLogs) < EventCap + BurstExtra
    /\ Len(inflight) < MaxLag
    /\ LET row == Stamp(pattern[(Len(dbLogs) % 2) + 1], Len(dbLogs) + 1) IN
         /\ dbLogs' = Append(dbLogs, row)
         /\ inflight' = IF channel = "joined" THEN Append(inflight, row) ELSE inflight
    /\ lastOp' = "insert"
    /\ UNCHANGED << extraVars, supabase, studentsMap, events, occupancy, gallery, mounted, loadPc,
                    loadMap, loadLogs, channel, occVars, attVars, gcVars, ragVars >>

NextBuf ==
    \/ InsertBurst
    \/ LiveEvent
    \/ Teardown

SpecBuf == InitBuf /\ [][NextBuf]_vars

\* ------------------------------------------------------------------------
\* SpecAsk: the assistant panel. onAssistantSend and the runRAGAnalysis call
\* it awaits; of the generateContent call that one awaits, the call and the
\* text it resolves to (SpecGen follows it inside). The onAssistantSend call
\* that finds no other one in flight is followed step by step; calls accepted
\* while it is in flight are followed from acceptance to settlement.
\* ------------------------------------------------------------------------
InitAsk ==
    /\ supabase \in BOOLEAN
    /\ SessIdle
    /\ channel = "none"
    /\ lastOp = "start"
    /\ OccIdle
    /\ AttIdle
    /\ API_KEY \in BOOLEAN
    /\ GcIdle
    /\ userQuestion = << >>
    /\ students = {StudentAshraf, StudentRavi}
    /\ utcDate = 1
    /\ ragPc = "idle"
    /\ today = ""
    /\ translation = NoTranslation
    /\ studentData = NoData
    /\ lookup = "none"
    /\ ragResult = Pending
    /\ ragRun = 0
    /\ firstRun = NoRun
    /\ AskIdle
    /\ BufIdle
    /\ SearchIdle
    /\ MetricsIdle

\* onChange of the input: setAssistantQuery(e.target.value)
AskType ==
    /\ \E q \in AskQuestions :
         /\ q # assistantQuery
         /\ assistantQuery' = q
    /\ lastOp' = "askType"
    /\ UNCHANGED << sessVars, occVars, attVars, gcVars, ragVars, isLoadingAI,
                    assistantResponse, shown, askPc, overlapped, sends, ragCalls, retrieval,
                    retrievals, gcCalls, bufVars, searchVars, metricVars >>

\* React renders: the handlers now close over the current state
AskRender ==
    /\ shown # [assistantQuery |-> assistantQuery, isLoadingAI |-> isLoadingAI]
    /\ shown' = [assistantQuery |-> assistantQuery, isLoadingAI |-> isLoadingAI]
    /\ lastOp' = "askRender"
    /\ UNCHANGED << sessVars, occVars, attVars, gcVars, ragVars, assistantQuery, isLoadingAI,
                    assistantResponse, askPc, overlapped, sends, ragCalls, retrieval,
                    retrievals, gcCalls, bufVars, searchVars, metricVars >>

\* onAssistantSend of the last render is called (Enter or the send button):
\* the guard, and if it passes, the two setters and runRAGAnalysis up to its
\* first await
AskSend ==
    /\ sends < MaxSends
    /\ sends' = sends + 1
    /\ IF shown.assistantQuery = << >> \/ shown.isLoadingAI \/ ~supabase
       THEN /\ lastOp' = "askIgnored"
            /\ UNCHANGED << isLoadingAI, assistantResponse, askPc, overlapped, ragCalls,
                            retrieval, retrievals, gcCalls, ragVars >>
       ELSE /\ isLoadingAI' = TRUE
            /\ assistantResponse' = AnalyzingText
            /\ ragCalls' = ragCalls + 1
            /\ lastOp' = "askAccepted"
            /\ IF askPc = "idle"
               THEN /\ askPc' = "awaitRun"
                    /\ userQuestion' = shown.assistantQuery
                    /\ LET r == callRAG(supabase, shown.assistantQuery, Days[utcDate])
                       IN /\ ragPc' = r.pc
                          /\ ragResult' = r.result
                          /\ today' = r.today
                          /\ translation' = r.translation
                    /\ studentData' = NoData
                    /\ lookup' = "none"
                    /\ retrieval' = "none"
                    /\ retrievals' = 0
                    /\ gcCalls' = 0
                    /\ UNCHANGED << overlapped, students, utcDate, ragRun, firstRun >>
               ELSE /\ overlapped' = overlapped + 1
                    /\ UNCHANGED << askPc, retrieval, retrievals, gcCalls, ragVars >>
    /\ UNCHANGED << sessVars, occVars, attVars, gcVars, assistantQuery, shown, bufVars,
                    searchVars, metricVars >>

\* the awaited queryBuilder settles; the two checks; generateContent is called
RagRetrievalResolve ==
    /\ ragPc = "awaitRetrieval"
    /\ askPc = "awaitRun"
    /\ \E outcome \in RetrievalOutcomes :
         /\ retrieval' = outcome
         /\ retrievals' = retrievals + 1
         /\ IF outcome = "exception"
            THEN /\ ragResult' = Thrown
                 /\ ragPc' = "done"
                 /\ gcCalls' = gcCalls
                 /\ lastOp' = "ragThrown"
            ELSE IF afterRetrieval(outcome) = "dbError"
            THEN /\ ragResult' = Returned(DbErrorText)
                 /\ ragPc' = "done"
                 /\ gcCalls' = gcCalls
                 /\ lastOp' = "ragDbError"
            ELSE IF afterRetrieval(outcome) = "noData"
            THEN /\ ragResult' = Returned(NoDataText)
                 /\ ragPc' = "done"
                 /\ gcCalls' = gcCalls
                 /\ lastOp' = "ragNoData"
            ELSE /\ ragResult' = ragResult
                 /\ ragPc' = "generate"
                 /\ gcCalls' = gcCalls + 1
                 /\ lastOp' = "ragGenerate"
    /\ UNCHANGED << sessVars, occVars, attVars, gcVars, userQuestion, students, utcDate,
                    today, translation, studentData, lookup, ragRun, firstRun,
                    assistantQuery, isLoadingAI, assistantResponse, shown, askPc, overlapped,
                    sends, ragCalls, bufVars, searchVars, metricVars >>

\* the awaited generateContent resolves: return `AI Assistant: ${aiResponse}`
RagGenerated ==
    /\ ragPc = "generate"
    /\ \E aiResponse \in generateContentResults(API_KEY) :
         ragResult' = Returned(AssistantText(aiResponse))
    /\ ragPc' = "done"
    /\ lastOp' = "ragAnswered"
    /\ UNCHANGED << sessVars, occVars, attVars, gcVars, userQuestion, students, utcDate,
                    today, translation, studentData, lookup, ragRun, firstRun, extraVars >>

\* runRAGAnalysis has settled: try / catch / finally and setAssistantQuery("");
\* the frames of the two calls are gone
AskSettle ==
    /\ askPc = "awaitRun"
    /\ ragPc = "done"
    /\ assistantResponse' = IF ragResult.kind = "returned" THEN ragResult.text ELSE AskErrorText
    /\ isLoadingAI' = gateAfterTry(ragResult.kind)
    /\ assistantQuery' = << >>
    /\ askPc' = "idle"
    /\ userQuestion' = << >>
    /\ ragPc' = "idle"
    /\ today' = ""
    /\ translation' = NoTranslation
    /\ studentData' = NoData
    /\ lookup' = "none"
    /\ ragResult' = Pending
    /\ retrieval' = "none"
    /\ retrievals' = 0
    /\ gcCalls' = 0
    /\ lastOp' = IF ragResult.kind = "returned" THEN "askAnswered" ELSE "askCaught"
    /\ UNCHANGED << sessVars, occVars, attVars, gcVars, students, utcDate, ragRun, firstRun,
                    shown, overlapped, sends, ragCalls, bufVars, searchVars, metricVars >>

\* the same for a call accepted while another one was in flight
AskOverlapSettle ==
    /\ overlapped > 0
    /\ \E r \in OverlapResults :
         /\ assistantResponse' = IF r.kind = "returned" THEN r.text ELSE AskErrorText
         /\ lastOp' = IF r.kind = "returned" THEN "overlapAnswered" ELSE "overlapCaught"
         /\ isLoadingAI' = gateAfterTry(r.kind)
    /\ assistantQuery' = << >>
    /\ overlapped' = overlapped - 1
    /\ UNCHANGED << sessVars, occVars, attVars, gcVars, ragVars, shown, askPc, sends,
                    ragCalls, retrieval, retrievals, gcCalls, bufVars, searchVars,
                    metricVars >>

NextAsk ==
    \/ AskType
    \/ AskRender
    \/ AskSend
    \/ RagLookupRejects
    \/ RagLookupResolve
    \/ RagRetrievalResolve
    \/ RagGenerated
    \/ AskSettle
    \/ AskOverlapSettle

SpecAsk == InitAsk /\ [][NextAsk]_vars

\* every awaited call settles and React renders after a state change; the user
\* is free not to type or send
SpecAskLive ==
    /\ SpecAsk
    /\ WF_vars(AskRender)
    /\ WF_vars(RagLookupResolve \/ RagRetrievalResolve \/ RagGenerated)
    /\ WF_vars(AskSettle)
    /\ WF_vars(AskOverlapSettle)

\* ------------------------------------------------------------------------
\* SpecMetrics: computeUniqueInAndIntruders(logs) on a buffer of events
\* ------------------------------------------------------------------------
InitMetrics ==
    /\ supabase = TRUE
    /\ SessIdle
    /\ channel = "none"
    /\ lastOp = "start"
    /\ OccIdle
    /\ AttIdle
    /\ API_KEY = TRUE
    /\ GcIdle
    /\ RagIdle
    /\ AskIdle
    /\ BufIdle
    /\ SearchIdle
    /\ mLogs \in UNION { [1..n -> MetricRows] : n \in 0..MaxBuf }
    /\ mIdx = 0
    /\ rollLatest = EmptyMap
    /\ intruderSeen = {}
    /\ mResult = NoMetrics

\* the call: the early return on no logs, or the Map and the Set are created
MetricsCall ==
    /\ mIdx = 0
    /\ mResult = NoMetrics
    /\ IF mLogs = << >>
       THEN /\ mResult' = [uniqueIn |-> 0, intruderCount |-> 0]
            /\ mIdx' = mIdx
            /\ lastOp' = "metricsEmpty"
       ELSE /\ mResult' = mResult
            /\ mIdx' = 1
            /\ lastOp' = "metricsLoop"
    /\ UNCHANGED << sessVars, occVars, attVars, gcVars, ragVars, askVars, bufVars, searchVars,
                    mLogs, rollLatest, intruderSeen >>

\* one iteration of the for loop
MetricsVisit ==
    /\ mIdx \in 1..Len(mLogs)
    /\ LET acc == visitEvent([rollLatest |-> rollLatest, intruderSeen |-> intruderSeen],
                             mLogs[mIdx], mIdx)
       IN /\ rollLatest' = acc.rollLatest
          /\ intruderSeen' = acc.intruderSeen
    /\ mIdx' = mIdx + 1
    /\ lastOp' = "metricsVisit"
    /\ UNCHANGED << sessVars, occVars, attVars, gcVars, ragVars, askVars, bufVars, searchVars,
                    mLogs, mResult >>

\* after the loop: count the rolls whose latest event is an ENTRY, return
MetricsReturn ==
    /\ mIdx = Len(mLogs) + 1
    /\ mResult = NoMetrics
    /\ mResult' = countsOf([rollLatest |-> rollLatest, intruderSeen |-> intruderSeen])
    /\ lastOp' = "metricsReturn"
    /\ UNCHANGED << sessVars, occVars, attVars, gcVars, ragVars, askVars, bufVars, searchVars,
                    mLogs, mIdx, rollLatest, intruderSeen >>

NextMetrics ==
    \/ MetricsCall
    \/ MetricsVisit
    \/ MetricsReturn

SpecMetrics == InitMetrics /\ [][NextMetrics]_vars

\* ------------------------------------------------------------------------
\* SpecSearch: the student search. The initial load is over (studentsMap is
\* what it published); onSearchStudent and the calculateStudentAttendance
\* call it awaits, of which the call and the result are followed (SpecAtt
\* follows it inside).
\* ------------------------------------------------------------------------
InitSearch ==
    /\ supabase \in BOOLEAN
    /\ studentsMap \in (IF supabase THEN {EmptyMap, StudentsTable} ELSE {EmptyMap})
    /\ events = << >>
    /\ occupancy = 0
    /\ gallery = << >>
    /\ mounted = TRUE
    /\ loadPc = "done"
    /\ loadMap = studentsMap
    /\ loadLogs = << >>
    /\ channel = "none"
    /\ dbLogs = << >>
    /\ inflight = << >>
    /\ lastOp = "loadApplied"
    /\ OccIdle
    /\ AttIdle
    /\ API_KEY = TRUE
    /\ GcIdle
    /\ RagIdle
    /\ AskIdle
    /\ BufIdle
    /\ SearchIdle
    /\ MetricsIdle

\* the Search button of a render whose searchRoll is roll: onSearchStudent up
\* to its await, with calculateStudentAttendance up to its own first await
SearchClick ==
    /\ searches < MaxSearches
    /\ searches' = searches + 1
    /\ \E roll \in SearchRolls :
         LET name == propertyRead(studentsMap, roll) IN
           IF roll = ""
           THEN /\ lastOp' = "searchIgnored"
                /\ UNCHANGED << studentInfo, searching, eventQueries, awaited >>
           ELSE IF Falsy(name)
           THEN /\ studentInfo' = Info([roll_no |-> roll, full_name |-> "Unknown",
                                        attendance_pct |-> LitPct("Student Not Enrolled")])
                /\ lastOp' = "searchNotEnrolled"
                /\ UNCHANGED << searching, eventQueries, awaited >>
           ELSE /\ studentInfo' = Info([roll_no |-> roll, full_name |-> name,
                                        attendance_pct |-> LitPct("Calculating...")])
                /\ awaited' = awaited + 1
                /\ searching' = Append(searching, [roll_no |-> roll, full_name |-> name,
                                                   queried |-> supabase, nth |-> awaited + 1])
                /\ eventQueries' = IF supabase THEN eventQueries + 1 ELSE eventQueries
                /\ lastOp' = "searchCalculating"
    /\ UNCHANGED << sessVars, occVars, attVars, gcVars, ragVars, askVars, bufVars, metricVars >>

\* one awaited calculateStudentAttendance resolves, in any order: the second
\* setStudentInfo
SearchResolve ==
    /\ \E i \in DOMAIN searching :
         /\ \E pct \in attendancePercentages(searching[i].queried) :
              studentInfo' = Info([roll_no |-> searching[i].roll_no,
                                   full_name |-> searching[i].full_name,
                                   attendance_pct |-> pct])
         /\ searching' = SubSeq(searching, 1, i - 1) \o SubSeq(searching, i + 1, Len(searching))
    /\ lastOp' = "searchResolved"
    /\ UNCHANGED << sessVars, occVars, attVars, gcVars, ragVars, askVars, bufVars, metricVars,
                    searches, eventQueries, awaited >>

NextSearch ==
    \/ SearchClick
    \/ SearchResolve

SpecSearch == InitSearch /\ [][NextSearch]_vars

\* ========================================================================
\* Properties
\* ========================================================================
CountType(logs, t) == Cardinality({ i \in DOMAIN logs : logs[i].event_type = t })

\* the running counter over the first n rows goes below zero for some n
Dips(logs) == \E n \in 1..Len(logs) : ScanCounter(SubSeq(logs, 1, n), 0) < 0

\* ------------------------------------------------------------------------
\* C1 (Spec): the published occupancy is never negative; the initial load
\* publishes max(0, #ENTRY - #EXIT) of the loaded rows whatever their order,
\* and every live event leaves the occupancy at or above zero.
\* ------------------------------------------------------------------------
C1_OccupancyNeverNegative ==
    /\ [](occupancy >= 0)
    /\ [][lastOp' = "loadApplied" =>
             occupancy' = Max(0, CountType(loadLogs, "ENTRY") - CountType(loadLogs, "EXIT"))]_vars

\* a load whose running counter went negative was clamped to 0, and a live EXIT
\* then arrived at occupancy 0
C1_Witness ==
    /\ loadPc = "done"
    /\ mounted
    /\ Dips(loadLogs)
    /\ ScanCounter(loadLogs, 0) < 0
    /\ lastOp = "liveEvent"
    /\ events[1].event_type = "EXIT"
    /\ occupancy = 0

\* ------------------------------------------------------------------------
\* C2 (SpecOcc), as claimed: after every append the occupancy kept by
\* computeDelta equals computeOccupancyFromLogs of the sequence so far.
\* ------------------------------------------------------------------------
C2_IncrementalEqualsBatch == occInc = computeOccupancyFromLogs(occSeq)

\* C2 amended: the two agree as long as no prefix of the sequence holds more
\* EXITs than ENTRYs; otherwise the incremental value is never below the
\* batch value.
C2_IncrementalVersusBatch ==
    /\ ~Dips(occSeq) => occInc = computeOccupancyFromLogs(occSeq)
    /\ occInc >= computeOccupancyFromLogs(occSeq)

\* a sequence with ENTRYs and EXITs and no dip, on which both give the same
\* positive occupancy
C2_Witness ==
    /\ Len(occSeq) >= 3
    /\ ~Dips(occSeq)
    /\ CountType(occSeq, "EXIT") >= 1
    /\ occInc >= 1
    /\ occInc = computeOccupancyFromLogs(occSeq)

\* ------------------------------------------------------------------------
\* C3 (SpecAtt): the total of calculateStudentAttendance is the one of the
\* two-state pairing machine: ENTRY while open is ignored, EXIT while not
\* open or not later than the open entry is ignored, a later EXIT adds the
\* elapsed time and closes, a trailing ENTRY adds nothing.
\* ------------------------------------------------------------------------
\* the pairing machine of the design, state "no-open-entry" or "open-entry"
RECURSIVE PairingMachine(_, _, _, _)
PairingMachine(logs, state, since, total) ==
    IF logs = << >> THEN total
    ELSE LET ev == Head(logs)
             t == getTime(ev.timestamp) IN
         IF ev.event_type = "ENTRY" /\ state = "no-open-entry"
         THEN PairingMachine(Tail(logs), "open-entry", t, total)
         ELSE IF ev.event_type = "EXIT" /\ state = "open-entry" /\ t > since
         THEN PairingMachine(Tail(logs), "no-open-entry", 0, total + (t - since))
         ELSE PairingMachine(Tail(logs), state, since, total)

\* [ENTRY@09:00, ENTRY@09:05, EXIT@09:30] and [ENTRY@09:00, EXIT@17:00]
ExampleReEntry == << AttRow("ENTRY", 32400), AttRow("ENTRY", 32700), AttRow("EXIT", 34200) >>
ExampleFullDay == << AttRow("ENTRY", 32400), AttRow("EXIT", 61200) >>

C3_ScanStep ==
    attIdx' = attIdx + 1 =>
      LET ev == attLogs[attIdx']
          t == getTime(ev.timestamp)
          open == entryTime # NoEntry
          same == entryTime' = entryTime /\ totalDurationMinutes' = totalDurationMinutes IN
        /\ (ev.event_type = "ENTRY" /\ open) => same
        /\ (ev.event_type = "ENTRY" /\ ~open) =>
              entryTime' = Open(t) /\ totalDurationMinutes' = totalDurationMinutes
        /\ (ev.event_type = "EXIT" /\ (~open \/ t <= TimeOf(entryTime))) => same
        /\ (ev.event_type = "EXIT" /\ open /\ t > TimeOf(entryTime)) =>
              /\ totalDurationMinutes' = totalDurationMinutes + (t - TimeOf(entryTime))
              /\ entryTime' = NoEntry

C3_Computed ==
    lastOp = "attComputed" =>
      /\ totalDurationMinutes = PairingMachine(attLogs, "no-open-entry", 0, 0)
      /\ attLogs = ExampleReEntry => totalDurationMinutes = 30 * MsPerMinute
      /\ attLogs = ExampleFullDay =>
            /\ totalDurationMinutes = 480 * MsPerMinute
            /\ attResult.percentage = [lit |-> "fixed", int |-> 100, frac |-> 0]

C3_PairingMachineTotal == [][C3_ScanStep]_vars /\ []C3_Computed

\* the re-entry example was computed: 30 minutes
C3_Witness ==
    /\ lastOp = "attComputed"
    /\ attLogs = ExampleReEntry
    /\ totalDurationMinutes = 30 * MsPerMinute

\* ------------------------------------------------------------------------
\* C4 (SpecAtt): the total never decreases as the scan takes further events,
\* and the total of every prefix of a chronological sequence is at most the
\* total of the whole sequence.
\* ------------------------------------------------------------------------
C4_MonotoneUnderExtension ==
    /\ [][totalDurationMinutes' >= totalDurationMinutes]_vars
    /\ [](\A n \in 0..Len(attLogs) :
             scanLogs(SubSeq(attLogs, 1, n)).total <= scanLogs(attLogs).total)

\* two sessions were added one after the other
C4_Witness ==
    /\ attIdx = 4
    /\ attLogs[1].event_type = "ENTRY" /\ attLogs[2].event_type = "EXIT"
    /\ attLogs[3].event_type = "ENTRY" /\ attLogs[4].event_type = "EXIT"
    /\ attLogs[2].timestamp > attLogs[1].timestamp
    /\ attLogs[4].timestamp > attLogs[3].timestamp
    /\ totalDurationMinutes = getTime(attLogs[2].timestamp) - getTime(attLogs[1].timestamp)
                              + getTime(attLogs[4].timestamp) - getTime(attLogs[3].timestamp)

\* ------------------------------------------------------------------------
\* C5 (SpecAtt): the total is never negative and the reported percentage is
\* min(100, total / 480 * 100) to one decimal, so within [0, 100] also when
\* the total exceeds 480 minutes.
\* ------------------------------------------------------------------------
PctTenths(pct) == pct.int * 10 + pct.frac

C5_PercentageClamped ==
    /\ totalDurationMinutes >= 0
    /\ lastOp = "attNoLogs" => attResult.percentage.lit = "0%"
    /\ lastOp = "attComputed" =>
         LET pct == attResult.percentage
             capped == Min(totalDurationMinutes, TOTAL_SCHEDULED_MINUTES * MsPerMinute)
             diff == PctTenths(pct) * PctDen - 10 * capped IN
           /\ pct.lit = "fixed"
           /\ pct.frac \in 0..9
           /\ PctTenths(pct) >= 0 /\ PctTenths(pct) <= 1000
           \* within half a tenth of min(100, total / 480 * 100)
           /\ 2 * diff <= PctDen /\ 2 * diff > -PctDen
           /\ totalDurationMinutes > TOTAL_SCHEDULED_MINUTES * MsPerMinute =>
                 pct.int = 100 /\ pct.frac = 0

\* a total above 480 minutes was reported as 100.0%
C5_Witness ==
    /\ lastOp = "attComputed"
    /\ totalDurationMinutes > TOTAL_SCHEDULED_MINUTES * MsPerMinute
    /\ attResult.percentage.int = 100
    /\ attResult.percentage.frac = 0

\* ------------------------------------------------------------------------
\* C6 (SpecGen), as claimed: after three consecutive 429 answers
\* generateContent returns, without throwing, the same error string as when
\* the attempts are exhausted by another kind of failure.
\* ------------------------------------------------------------------------
Three429 == << "429", "429", "429" >>

C6_SameSentinelAsOtherFailures ==
    (gcPc = "done" /\ responses = Three429) => gcResult = Returned(RetriesExhaustedText)

\* C6 amended: after three consecutive 429 answers generateContent returns,
\* without throwing, the fixed string of the return after the loop, which is
\* not the string returned when the last attempt fails another way.
C6_Three429ReturnLoopExitText ==
    /\ (gcPc = "done" /\ responses = Three429) =>
          /\ gcResult = Returned(LoopExitText)
          /\ gcResult.text # RetriesExhaustedText
    /\ (Len(responses) = maxRetries /\ responses # << >>
          /\ gcPc = "done" /\ tryBlock(responses[Len(responses)]) = "catch") =>
          gcResult = Returned(RetriesExhaustedText)

\* the call has ended after three 429 answers
C6_Witness ==
    /\ gcPc = "done"
    /\ responses = Three429
    /\ requests = 3
    /\ gcResult.kind = "returned"

\* ------------------------------------------------------------------------
\* C7 (SpecGen): one call sends at most 3 requests, and the first success
\* with non-empty text is returned at once, with no further request or wait.
\* ------------------------------------------------------------------------
C7_TextArrives ==
    /\ Len(responses') = Len(responses) + 1
    /\ responses'[Len(responses')] = "okText"

C7_AtMostThreeRequests ==
    /\ [](requests <= 3)
    /\ [](Len(responses) <= requests)
    /\ [][C7_TextArrives =>
            /\ gcPc' = "done"
            /\ gcResult' = Returned(GeneratedText)
            /\ requests' = requests
            /\ waits' = waits]_vars
    /\ [][gcPc = "done" => (requests' = requests /\ waits' = waits /\ gcResult' = gcResult)]_vars
    /\ [](gcResult = Returned(GeneratedText) =>
            /\ requests = Len(responses)
            /\ \A i \in 1..Len(responses) : (responses[i] = "okText") <=> (i = Len(responses)))

\* the third request, after a 429 and an empty answer, brought the text
C7_Witness ==
    /\ gcPc = "done"
    /\ responses = << "429", "okEmpty", "okText" >>
    /\ requests = 3
    /\ Len(waits) = 2
    /\ gcResult = Returned(GeneratedText)

\* ------------------------------------------------------------------------
\* C8 (SpecGenLive): generateContent never throws: every call ends, returning
\* the extracted text or an error string, and without API key it returns the
\* offline string without sending a request.
\* ------------------------------------------------------------------------
ErrorTexts == {OfflineText, RetriesExhaustedText, LoopExitText}

C8_NeverThrows ==
    /\ [](gcResult.kind # "thrown")
    /\ [](gcPc = "done" =>
            /\ gcResult.kind = "returned"
            /\ gcResult.text \in ErrorTexts \cup {GeneratedText})
    /\ [](~API_KEY => requests = 0)
    /\ []((~API_KEY /\ gcPc = "done") => gcResult = Returned(OfflineText))
    /\ <>(gcPc = "done")

\* a rejected fetch, an unparsable error body and an unparsable success body
\* ended in the error string
C8_Witness ==
    /\ gcPc = "done"
    /\ responses = << "rejected", "httpErrorRaw", "okRaw" >>
    /\ gcResult = Returned(RetriesExhaustedText)

\* ------------------------------------------------------------------------
\* C9 (SpecRag): translating the same question twice on the same day, with
\* the students table unchanged and read by both runs, ends the same way with
\* the same set of filters and the same label, in whatever order the lookup
\* returns its rows.
\* ------------------------------------------------------------------------
C9_TranslationDeterministic ==
    (/\ ragRun = 2
     /\ ragPc \in {"awaitRetrieval", "done"}
     /\ today = firstRun.today
     /\ lookup \in {"none", "rows"}
     /\ firstRun.lookup \in {"none", "rows"}) =>
       /\ ragPc = firstRun.pc
       /\ translation.filters = firstRun.translation.filters
       /\ translation.label = firstRun.translation.label
       /\ ragResult = firstRun.result

\* both runs matched two students, returned in different orders
C9_Witness ==
    /\ ragRun = 2
    /\ ragPc = "awaitRetrieval"
    /\ today = firstRun.today
    /\ lookup = "rows" /\ firstRun.lookup = "rows"
    /\ Len(studentData) = 2
    /\ studentData # firstRun.studentData
    /\ translation.filters = firstRun.translation.filters
    /\ translation.label = firstRun.translation.label

\* ------------------------------------------------------------------------
\* C10 (SpecRag): a translation that yields a query has the timestamp >=
\* today filter, and " (Today)" at the end of its label, exactly when no
\* filter came from the proxy, intruder or student rules or the question
\* contains "today" in any case; "how many proxies today" yields exactly
\* is_spoof = true and timestamp >= today, labelled "Proxy Attempts (Today)".
\* ------------------------------------------------------------------------
QuestionProxiesToday == PhHowMany \o PhProxies \o PhToday

C10_RuleFilters == { f \in translation.filters : f.col # "timestamp" }

C10_TodayConstraint ==
    ragPc = "awaitRetrieval" =>
      LET expected == C10_RuleFilters = {} \/ includes(toLowerCase(userQuestion), KwToday)
          label == translation.label IN
        /\ (FilterSince(today) \in translation.filters) <=> expected
        /\ (label[Len(label)] = TextPiece(" (Today)")) <=> expected
        /\ \A f \in translation.filters : f.col = "timestamp" => f = FilterSince(today)
        /\ today = Days[utcDate] \/ (utcDate > 1 /\ today = Days[utcDate - 1])
        /\ userQuestion = QuestionProxiesToday =>
              /\ translation.filters = {FilterSpoof, FilterSince(today)}
              /\ label = << TextPiece("Proxy Attempts"), TextPiece(" (Today)") >>

\* "how many proxies today" was translated
C10_Witness ==
    /\ ragPc = "awaitRetrieval"
    /\ userQuestion = QuestionProxiesToday
    /\ translation.filters = {FilterSpoof, FilterSince(today)}
    /\ translation.label = << TextPiece("Proxy Attempts"), TextPiece(" (Today)") >>

\* ------------------------------------------------------------------------
\* C11 (SpecAsk): in one run of runRAGAnalysis the awaited queryBuilder
\* settles at most once and generateContent is called at most once, and only
\* after the retrieval returned at least one row. A run whose student lookup
\* matched nobody with no proxy/intruder filter set ends with the "cannot find"
\* text, no retrieval awaited and generateContent not called; a run whose
\* retrieval reported an error, or no rows, ends with the database-error text,
\* or the no-data text, generateContent not called.
\* ------------------------------------------------------------------------
C11_GenerateOnlyOnRows ==
    /\ retrievals <= 1
    /\ gcCalls <= 1
    /\ gcCalls = 1 => (retrieval = "rows" /\ retrievals = 1)
    /\ ragPc = "generate" => gcCalls = 1
    /\ (ragPc = "done" /\ lookup \in {"rows", "error"} /\ shortCircuits(rulesAB(userQuestion), studentData)) =>
          /\ ragResult = Returned(NotFoundText(namePartOf(userQuestion)))
          /\ retrieval = "none"
          /\ retrievals = 0
          /\ gcCalls = 0
    /\ (ragPc = "done" /\ retrieval = "error") =>
          (ragResult = Returned(DbErrorText) /\ gcCalls = 0 /\ retrievals = 1)
    /\ (ragPc = "done" /\ retrieval \in {"null", "empty"}) =>
          (ragResult = Returned(NoDataText) /\ gcCalls = 0 /\ retrievals = 1)

\* a run that retrieved rows, called generateContent and returned its text
C11_Witness ==
    /\ ragPc = "done"
    /\ retrieval = "rows"
    /\ gcCalls = 1
    /\ ragResult = Returned(AssistantText(GeneratedText))

\* the row is evidence: spoofed or without a roll number, and with a picture
Qualifies(row) ==
    /\ (row.is_spoof \/ row.roll_no = Null \/ row.roll_no = "" \/ row.roll_no = " ")
    /\ row.evidence_url # Null
    /\ row.evidence_url # ""

\* buffer `after` is buffer `before` with row put first and, if that makes
\* more than cap items, without its last item
PutFirst(before, row, after, cap) ==
    /\ Len(after) = Min(Len(before) + 1, cap)
    /\ after[1] = row
    /\ \A i \in 2..Len(after) : after[i] = before[i - 1]

\* ------------------------------------------------------------------------
\* C12 (SpecBuf): the event buffer never holds more than 100 events nor the
\* evidence buffer more than 8 items, both with the latest arrival first: a
\* live event is put first in the event buffer, the others keep their order,
\* and when the buffer held 100 exactly its last (oldest) event is dropped;
\* a live event that qualifies as evidence is put first in the evidence buffer
\* in the same way with capacity 8, one that does not leaves it as it is.
\* ------------------------------------------------------------------------
C12_BuffersBounded ==
    /\ [](Len(events) <= EventCap /\ Len(gallery) <= GalleryCap)
    /\ [][lastOp' = "liveEvent" =>
            /\ PutFirst(events, Head(inflight), events', 100)
            /\ IF Qualifies(Head(inflight))
               THEN PutFirst(gallery, Head(inflight), gallery', 8)
               ELSE gallery' = gallery]_vars

\* a qualifying live event has arrived at full buffers: it is first in both,
\* the event of the first insert and the evidence of the first qualifying
\* insert are gone
C12_Witness ==
    /\ lastOp = "liveEvent"
    /\ Len(events) = 100
    /\ events[1].timestamp > 100
    /\ events[100].timestamp = events[1].timestamp - 99
    /\ Len(gallery) = 8
    /\ gallery[1] = events[1]
    /\ Cardinality({ i \in DOMAIN dbLogs : Qualifies(dbLogs[i]) /\ dbLogs[i].timestamp <= events[1].timestamp }) > 8

\* ------------------------------------------------------------------------
\* C15 (Spec): once the effect's cleanup has run, no step of the initial load
\* (fetchStudents resolving, fetchLastLogs being answered and resolving)
\* changes studentsMap, events, gallery or occupancy, and the channel, if one
\* was requested, is removed.
\* ------------------------------------------------------------------------
C15_LoadDiscardedAfterTeardown ==
    /\ [][(~mounted /\ loadPc' # loadPc) =>
             UNCHANGED << studentsMap, events, gallery, occupancy >>]_vars
    /\ [](~mounted => channel = (IF supabase THEN "removed" ELSE "none"))

\* the cleanup ran while the load was awaited; the load then resolved with a
\* students map and rows, and nothing of them was published
C15_Witness ==
    /\ lastOp = "loadDiscarded"
    /\ loadMap = StudentsTable
    /\ Len(loadLogs) >= 2
    /\ GallerySeedKeep(loadLogs[1])
    /\ computeOccupancyFromLogs(loadLogs) > 0
    /\ studentsMap = EmptyMap
    /\ events = << >>
    /\ gallery = << >>
    /\ occupancy = 0
    /\ channel = "removed"

\* onAssistantSend calls accepted and not yet settled
InFlight == (IF askPc = "awaitRun" THEN 1 ELSE 0) + overlapped

\* ------------------------------------------------------------------------
\* C13 (SpecAsk): at most one assistant request is in flight at any time, a
\* second onAssistantSend call made before the first has settled starting no
\* runRAGAnalysis, whether or not React has rendered since the first.
\* ------------------------------------------------------------------------
C13_AtMostOneInFlight == InFlight <= 1

SettleOps == {"askAnswered", "askCaught", "overlapAnswered", "overlapCaught"}

\* ------------------------------------------------------------------------
\* C14 (SpecAskLive): every accepted onAssistantSend call settles, whether
\* runRAGAnalysis returned or threw, and as it settles isLoadingAI is set to
\* false; so a raised isLoadingAI always comes down again. A call made with a
\* non-empty question by a render that shows isLoadingAI false is accepted.
\* ------------------------------------------------------------------------
C14_GateReleased ==
    /\ (askPc = "awaitRun") ~> (lastOp \in {"askAnswered", "askCaught"})
    /\ isLoadingAI ~> ~isLoadingAI
    /\ [][lastOp' \in SettleOps => ~isLoadingAI']_vars
    /\ [][(sends' = sends + 1 /\ supabase /\ ~shown.isLoadingAI /\ shown.assistantQuery # << >>) =>
             (lastOp' = "askAccepted" /\ isLoadingAI' /\ ragCalls' = ragCalls + 1)]_vars

\* a request was accepted and released, and the next question has been
\* accepted in its turn
C14_Witness ==
    /\ assistantResponse = AnalyzingText
    /\ lastOp = "askAccepted"
    /\ ragCalls = 2
    /\ InFlight = 1
    /\ isLoadingAI

OfflineTexts ==
    {DbOfflineText, "AI Assistant: Error: AI Assistant is offline (Missing API Key)."}

\* ------------------------------------------------------------------------
\* C18 (SpecAsk): without a store client, an onAssistantSend call with a
\* non-empty question publishes an offline message as the assistant response.
\* ------------------------------------------------------------------------
C18_OfflineReported ==
    [][(~supabase /\ sends' = sends + 1 /\ shown.assistantQuery # << >>) =>
          assistantResponse' \in OfflineTexts]_vars

\* ------------------------------------------------------------------------
\* C19 (SpecAsk): no run of runRAGAnalysis ends by throwing, whether the
\* student lookup or the final retrieval reported an error or rejected.
\* ------------------------------------------------------------------------
C19_NoExceptionLeaves == ragResult.kind # "thrown"

\* the event has no roll number: null, empty or blank
Keyless(ev) == ev.roll_no \in {Null, "", " "}

\* the key the claim gives an intruder event: its evidence url if it has one,
\* else its timestamp
ClaimedKey(ev) ==
    IF ev.evidence_url \notin {Null, ""}
    THEN [url |-> ev.evidence_url, ts |-> 0]
    ELSE [url |-> "", ts |-> ev.timestamp]

\* ------------------------------------------------------------------------
\* C16 (SpecSearch): a search for a roll number that studentsMap has no entry
\* for publishes "Student Not Enrolled", issues no attendance_logs query and
\* awaits no calculateStudentAttendance.
\* ------------------------------------------------------------------------
C16_AbsentMeansNotEnrolled ==
    [][(lastOp' \in {"searchNotEnrolled", "searchCalculating"}
          /\ studentInfo'[1].roll_no \notin DOMAIN studentsMap) =>
         /\ studentInfo'[1].attendance_pct = LitPct("Student Not Enrolled")
         /\ eventQueries' = eventQueries
         /\ searching' = searching]_vars

\* the rolls whose first event in the buffer (the most recent) is an ENTRY
RollsIn(buffer) ==
    { r \in { buffer[i].roll_no : i \in { j \in DOMAIN buffer : ~Keyless(buffer[j]) } } :
        \E i \in DOMAIN buffer :
           /\ buffer[i].roll_no = r
           /\ buffer[i].event_type = "ENTRY"
           /\ \A j \in 1..(i - 1) : buffer[j].roll_no # r }

ThreatKeys(buffer) ==
    { ClaimedKey(buffer[i]) :
        i \in { j \in DOMAIN buffer : Keyless(buffer[j]) /\ buffer[j].event_type = "ENTRY" } }

BatchOccupancy(buffer) == Max(0, CountType(buffer, "ENTRY") - CountType(buffer, "EXIT"))

\* ------------------------------------------------------------------------
\* C17 (Spec), as claimed: in every state the published occupancy is the
\* batch occupancy of the current event buffer.
\* ------------------------------------------------------------------------
C17_OccupancyIsBatchOfBuffer == occupancy = BatchOccupancy(events)

\* C17 amended: uniqueIn and threatCount shown are those of the current event
\* buffer alone; the occupancy is the batch occupancy of the event buffer when
\* the initial load is applied, and after a live event it is its previous
\* value plus one on ENTRY, minus one but not below zero on EXIT, unchanged
\* otherwise, whatever the buffer holds.
C17_MetricsOfBufferOccupancyBySteps ==
    /\ [](/\ headerMetrics(events).uniqueIn = Cardinality(RollsIn(events))
          /\ headerMetrics(events).intruderCount = Cardinality(ThreatKeys(events)))
    /\ [][lastOp' = "loadApplied" => occupancy' = BatchOccupancy(events')]_vars
    /\ [][lastOp' = "liveEvent" =>
            occupancy' = (CASE events'[1].event_type = "ENTRY" -> occupancy + 1
                            [] events'[1].event_type = "EXIT" -> Max(0, occupancy - 1)
                            [] OTHER -> occupancy)]_vars

\* after the load and some live events the occupancy differs from the batch
\* occupancy of the buffer, while a student is counted in and a threat shown
C17_Witness ==
    /\ loadPc = "done"
    /\ mounted
    /\ lastOp = "liveEvent"
    /\ occupancy # BatchOccupancy(events)
    /\ headerMetrics(events).uniqueIn >= 1
    /\ headerMetrics(events).intruderCount >= 1

\* ------------------------------------------------------------------------
\* C20 (SpecMetrics): the intruderCount returned for a buffer is the number
\* of distinct keys (evidence url if present, else timestamp) among its events
\* without roll number and of type ENTRY; visiting an event that has a roll
\* number, spoofed or not, or an event of type EXIT without roll number,
\* leaves the set of intruder keys as it is.
\* ------------------------------------------------------------------------
C20_ThreatCount ==
    /\ [](mResult # NoMetrics =>
            mResult.intruderCount =
               Cardinality({ ClaimedKey(mLogs[i]) :
                               i \in { j \in DOMAIN mLogs : Keyless(mLogs[j]) /\ mLogs[j].event_type = "ENTRY" } }))
    /\ [][(lastOp' = "metricsVisit" /\ (~Keyless(mLogs[mIdx]) \/ mLogs[mIdx].event_type = "EXIT")) =>
             intruderSeen' = intruderSeen]_vars

\* a buffer of four with a spoofed event of an enrolled student, an EXIT
\* without roll number and two ENTRY events without roll number or url at the
\* same timestamp: one threat
C20_Witness ==
    /\ lastOp = "metricsReturn"
    /\ Len(mLogs) = 4
    /\ \E i \in DOMAIN mLogs : ~Keyless(mLogs[i]) /\ mLogs[i].is_spoof
    /\ \E i \in DOMAIN mLogs : Keyless(mLogs[i]) /\ mLogs[i].event_type = "EXIT"
    /\ \E i, j \in DOMAIN mLogs :
          /\ i < j
          /\ Keyless(mLogs[i]) /\ mLogs[i].event_type = "ENTRY" /\ Falsy(mLogs[i].evidence_url)
          /\ mLogs[j] = mLogs[i]
    /\ mResult.intruderCount = 1

\* ------------------------------------------------------------------------
\* C21 (SpecMetrics): the uniqueIn returned for a buffer, scanned from its
\* first (most recent) event, is the number of distinct roll numbers whose
\* first occurrence in the buffer has type ENTRY; visiting an event leaves
\* every status already recorded in rollLatest as it is.
\* ------------------------------------------------------------------------
C21_UniqueInFirstOccurrence ==
    /\ [](mResult # NoMetrics => mResult.uniqueIn = Cardinality(RollsIn(mLogs)))
    /\ [][lastOp' = "metricsVisit" =>
            \A r \in DOMAIN rollLatest :
               r \in DOMAIN rollLatest' /\ rollLatest'[r] = rollLatest[r]]_vars

\* a buffer where one student's most recent event is an EXIT with an older
\* ENTRY behind it, and another student's only event is an ENTRY: one inside
C21_Witness ==
    /\ lastOp = "metricsReturn"
    /\ \E i, j \in DOMAIN mLogs :
          /\ i < j
          /\ ~Keyless(mLogs[i])
          /\ mLogs[j].roll_no = mLogs[i].roll_no
          /\ mLogs[i].event_type = "EXIT"
          /\ mLogs[j].event_type = "ENTRY"
          /\ \A k \in 1..(i - 1) : mLogs[k].roll_no # mLogs[i].roll_no
    /\ \E i \in DOMAIN mLogs : mLogs[i].roll_no = "R2"
    /\ mResult.uniqueIn = 1

\* ------------------------------------------------------------------------
\* C22 (Spec): in every state every item of the evidence buffer has an
\* evidence url and is flagged as spoof or has no roll number (null, empty or
\* blank); an item new to the buffer is the live event just delivered or a
\* row of the page just loaded, and a live event that is not of this kind
\* leaves the buffer as it is.
\* ------------------------------------------------------------------------
C22_EvidenceFiltered ==
    /\ [](\A i \in DOMAIN gallery : Qualifies(gallery[i]))
    /\ [][\A i \in DOMAIN gallery' :
            \/ \E j \in DOMAIN gallery : gallery[j] = gallery'[i]
            \/ lastOp' = "liveEvent" /\ gallery'[i] = Head(inflight)
            \/ lastOp' = "loadApplied" /\ \E j \in DOMAIN loadLogs : loadLogs[j] = gallery'[i]]_vars
    /\ [][(lastOp' = "liveEvent" /\ ~Qualifies(Head(inflight))) => gallery' = gallery]_vars

\* the evidence buffer holds a spoofed event seeded by the initial load and,
\* before it, a live event with a blank roll number, while the event buffer
\* also holds an event that is no evidence
C22_Witness ==
    /\ lastOp = "liveEvent"
    /\ loadPc = "done"
    /\ Len(gallery) = 2
    /\ gallery[1].roll_no = " "
    /\ gallery[1] = events[1]
    /\ gallery[2].is_spoof
    /\ \E j \in DOMAIN loadLogs : loadLogs[j] = gallery[2]
    /\ \E i \in DOMAIN events : ~Qualifies(events[i])

\* the number of places of a buffer that hold the row
CountIn(buffer, row) == Cardinality({ i \in DOMAIN buffer : buffer[i] = row })

\* ------------------------------------------------------------------------
\* C23 (Spec): nothing orders the initial load and the live callback. When
\* the load is applied the event buffer and the occupancy become those of the
\* fetched page alone, whatever the callback had put there; the callback puts
\* its row first in the event buffer whether or not the buffer holds that row
\* already. So a row is in the buffer at most twice, and then it is a row of
\* the applied page that the callback has also delivered; and a delivered row
\* is missing from the buffer only after the load was applied with a page
\* that does not hold it.
\* ------------------------------------------------------------------------
C23_LoadAndLiveUnsequenced ==
    /\ [][lastOp' = "loadApplied" =>
            events' = loadLogs /\ occupancy' = BatchOccupancy(loadLogs)]_vars
    /\ [][lastOp' = "liveEvent" => PutFirst(events, Head(inflight), events', EventCap)]_vars
    /\ [](\A i \in DOMAIN events :
            /\ CountIn(events, events[i]) <= 2
            /\ CountIn(events, events[i]) = 2 =>
                  /\ loadPc = "done"
                  /\ CountIn(loadLogs, events[i]) = 1
                  /\ events[i].timestamp \in delivered)
    /\ [](\A i \in DOMAIN dbLogs :
            (dbLogs[i].timestamp \in delivered /\ CountIn(events, dbLogs[i]) = 0) =>
               loadPc = "done" /\ CountIn(loadLogs, dbLogs[i]) = 0)

\* the duplicate: one ENTRY was inserted, fetched in the page and delivered
\* live after the load was applied; it is twice in the event buffer and the
\* occupancy is 2
C23_Witness ==
    /\ lastOp = "liveEvent"
    /\ Len(dbLogs) = 1
    /\ dbLogs[1].event_type = "ENTRY"
    /\ loadLogs = dbLogs
    /\ loadPc = "done"
    /\ events = << dbLogs[1], dbLogs[1] >>
    /\ occupancy = 2

\* the gap: of two ENTRY events inserted, the second was inserted after the
\* page was selected and delivered live before the load was applied; the
\* event buffer holds the first only and the occupancy is 1
C23_GapReached ==
    /\ lastOp = "loadApplied"
    /\ Len(dbLogs) = 2
    /\ dbLogs[1].event_type = "ENTRY"
    /\ dbLogs[2].event_type = "ENTRY"
    /\ dbLogs[2].timestamp \in delivered
    /\ inflight = << >>
    /\ loadLogs = << dbLogs[1] >>
    /\ events = << dbLogs[1] >>
    /\ occupancy = 1

\* the wait the claim prescribes after a failure of the given kind on the
\* 0-based attempt k, in milliseconds
PrescribedWait(w) ==
    IF w.after = "429"
    THEN LET base == CASE w.attempt = 0 -> 1000
                       [] w.attempt = 1 -> 2000
                       [] OTHER -> 4000
         IN w.ms >= base /\ w.ms < base + 1000
    ELSE w.ms = 2000

\* ------------------------------------------------------------------------
\* C24 (SpecGen): every wait of generateContent has the prescribed length
\* (after a 429 on attempt k, 2^k seconds plus less than a second; after any
\* other failure, 2 seconds); when a wait is over a request is sent next; and
\* no wait is started by the failure of the third attempt.
\* ------------------------------------------------------------------------
C24_WaitsOnlyBetweenAttempts ==
    /\ [](\A i \in DOMAIN waits : PrescribedWait(waits[i]))
    /\ [][lastOp' = "gcWake" => loopContinues(attempt')]_vars
    /\ [](\A i \in DOMAIN waits : waits[i].attempt < maxRetries - 1)

\* ------------------------------------------------------------------------
\* C25 (SpecSearch): when the last of the awaited searches resolves, so that
\* none is in flight any more, the one resolving, whose result studentInfo
\* then shows, is the search issued most recently.
\* ------------------------------------------------------------------------
C25_LatestSearchWins ==
    [][(lastOp' = "searchResolved" /\ searching' = << >>) =>
          (searching[1].nth = awaited /\ studentInfo'[1].roll_no = searching[1].roll_no)]_vars

\* ------------------------------------------------------------------------
\* C26 (SpecAtt): a duration string "<h>h <m>m" returned by
\* calculateStudentAttendance has h the whole hours of the total duration and
\* m between 0 and 59.
\* ------------------------------------------------------------------------
C26_DurationWellFormed ==
    (attPc = "done" /\ attResult.duration.lit = "hm") =>
       /\ attResult.duration.h * 60 * MsPerMinute <= totalDurationMinutes
       /\ totalDurationMinutes < (attResult.duration.h + 1) * 60 * MsPerMinute
       /\ attResult.duration.m >= 0
       /\ attResult.duration.m <= 59

====
